---- MODULE Spec2Model ----
(***************************************************************************)
(* Generation-orchestration core of the fractal browser: the response      *)
(* cache (services/cache.ts), the LLM service (services/llm.ts), the       *)
(* provider registry (main/services/provider-service.ts) and the streaming *)
(* service (main/services/streaming-service.ts).                           *)
(*                                                                         *)
(* Strings of the program are TLA+ strings; template literals are string   *)
(* concatenation (\o).  A JavaScript Map is a sequence of entries in the   *)
(* Map's iteration order, which is the order in which the keys were added. *)
(***************************************************************************)
EXTENDS Integers, Sequences, FiniteSets, TLC

VARIABLES
    cache,      \* CacheService.cache: Map<string, AIResponse>, in iteration order
    tick,       \* ghost: number of entries added to the Map since the initial state
    calls,      \* ghost: the last two direct calls of CacheService methods, oldest first
    keyIn,      \* arguments of two generateCacheKey calls
    keyOut,     \* the keys the two calls returned
    providers,  \* ProviderService.providers: Map<string, AIProvider>, in iteration order
    slots,      \* the generateWebsite calls suspended at `await generateText`
    ret,        \* ghost: how the last generateWebsite call ended
    st,         \* the streamWebsite generator: its position and its local variables
    yielded,    \* ghost: the chunks the generator has yielded, in order
    gen,        \* ghost: the backend call behind the generator's streams
    reg,        \* ghost: the last call of a ProviderService method and its outcome
    ui          \* BrowserUI: the fields its stream callback reads and writes

cacheVars == <<cache, tick, calls>>
keyVars == <<keyIn, keyOut>>
llmVars == <<providers, slots, ret>>
streamVars == <<st, yielded, gen>>
regVars == <<reg>>
uiVars == <<ui>>
vars ==
    <<cache, tick, calls, keyIn, keyOut, providers, slots, ret, st, yielded, gen, reg, ui>>

(***************************************************************************)
(* Program constants                                                       *)
(***************************************************************************)
\* PERFORMANCE_CONSTANTS.MAX_CACHE_SIZE
MAX_CACHE_SIZE == 100

(***************************************************************************)
(* Bounds of the model                                                     *)
(***************************************************************************)
\* entries that one behaviour adds to the cache on top of its initial content
MaxInserts == 2

\* generateWebsite calls that can be suspended at the same time
MaxReqs == 2

\* items one behaviour reads from the two streams of a backend call, together
MaxEvents == 4

\* calls of BrowserUI.generateWebsite in one behaviour
MaxNavs == 2

\* chunks with content that the stream callbacks of one behaviour receive
MaxChunks == 2

\* JavaScript undefined
Undefined == "undefined"

(***************************************************************************)
(* JavaScript Map, as used by CacheService                                 *)
(***************************************************************************)
\* Map.prototype.has
MapHas(m, k) == \E i \in 1..Len(m) : m[i].key = k

\* position of key k in the iteration order (k is held)
MapIndex(m, k) == CHOOSE i \in 1..Len(m) : m[i].key = k

\* Map.prototype.get
MapGet(m, k) == IF MapHas(m, k) THEN m[MapIndex(m, k)].value ELSE Undefined

\* Map.prototype.set, mutated: every set adds an entry
MapSetAppend(m, k, v, t) == Append(m, [key |-> k, value |-> v, at |-> t])

\* Map.prototype.set: a held key keeps its place, a new key goes last.
\* t is the ghost insertion stamp given to a new entry.
MapSet(m, k, v, t) ==
    IF MapHas(m, k)
    THEN [m EXCEPT ![MapIndex(m, k)].value = v]
    ELSE Append(m, [key |-> k, value |-> v, at |-> t])

\* Map.prototype.delete
MapDelete(m, k) == SelectSeq(m, LAMBDA e : e.key # k)

\* cache.keys().next().value, mutated: the key added last
MapLastKey(m) == IF Len(m) = 0 THEN Undefined ELSE m[Len(m)].key

\* cache.keys().next().value: the first key of the iteration order
MapFirstKey(m) == IF Len(m) = 0 THEN Undefined ELSE m[1].key

(***************************************************************************)
(* CacheService                                                            *)
(***************************************************************************)
\* CacheService.set, mutated: evicts only above the capacity
CacheSetAbove(m, k, v, t) ==
    LET m1 == IF Len(m) > MAX_CACHE_SIZE THEN MapDelete(m, MapFirstKey(m)) ELSE m
    IN  MapSet(m1, k, v, t)

\* CacheService.set, mutated: returns after the eviction
CacheSetEvictOnly(m, k, v, t) ==
    IF Len(m) >= MAX_CACHE_SIZE THEN MapDelete(m, MapFirstKey(m)) ELSE MapSet(m, k, v, t)

\* CacheService.set: the Map after set(key, response)
CacheSet(m, k, v, t) ==
    LET m1 == IF Len(m) >= MAX_CACHE_SIZE THEN MapDelete(m, MapFirstKey(m)) ELSE m
    IN  MapSet(m1, k, v, t)

\* CacheService.getStats
getStats(m) == [size |-> Len(m), maxSize |-> MAX_CACHE_SIZE]

\* the keys held by the Map
Held(m) == {m[i].key : i \in 1..Len(m)}

(***************************************************************************)
(* Cache keys                                                              *)
(*                                                                         *)
(* An options object is the sequence of its own properties in insertion    *)
(* order, each [name, value]; JSON.stringify walks them in that order.     *)
(* Numbers are held in tenths (7 is 0.7); UndefinedNum is a property whose *)
(* value is undefined.                                                     *)
(***************************************************************************)
UndefinedNum == -1

\* Number.prototype.toString of a number held in tenths
JSONNumber(v) ==
    IF v % 10 = 0
    THEN ToString(v \div 10)
    ELSE ToString(v \div 10) \o "." \o ToString(v % 10)

\* the properties JSON.stringify writes: those whose value is not undefined
JSONProps(o) == SelectSeq(o, LAMBDA p : p.value # UndefinedNum)

RECURSIVE JSONJoin(_)
\* "name":value pairs of the properties, comma separated, in the object's order
JSONJoin(ps) ==
    IF Len(ps) = 0 THEN ""
    ELSE LET one == "\"" \o ps[1].name \o "\":" \o JSONNumber(ps[1].value)
         IN  IF Len(ps) = 1 THEN one ELSE one \o "," \o JSONJoin(Tail(ps))

\* JSON.stringify(options) of an options object
JSONStringify(o) == "{" \o JSONJoin(JSONProps(o)) \o "}"

\* CacheService.generateCacheKey
generateCacheKey(url, provider, options) ==
    url \o ":" \o provider \o ":" \o JSONStringify(options)

\* the property/value pairs of an options object, whatever their order
PropsOf(o) == {o[i] : i \in 1..Len(o)}

\* option objects over the names and values of the model, properties in any order
OptionNames == {"temperature", "maxTokens"}
OptionValues == {UndefinedNum, 0, 7, 40000}
OptionObjects ==
    {<<>>}
    \cup {<<[name |-> n, value |-> v]>> : n \in OptionNames, v \in OptionValues}
    \cup {<<[name |-> n1, value |-> v1], [name |-> n2, value |-> v2]>> :
            <<n1, n2>> \in {p \in OptionNames \X OptionNames : p[1] # p[2]},
            <<v1, v2>> \in OptionValues \X OptionValues}

Urls == {"https://a.com", "b.org/x"}

KeyArgs == [url : Urls, provider : {"openai", "google"}, options : OptionObjects]

KeyIdle ==
    /\ keyIn = <<[url |-> "", provider |-> "", options |-> <<>>],
                 [url |-> "", provider |-> "", options |-> <<>>]>>
    /\ keyOut = <<>>

\* the arguments of two calls of generateCacheKey with the same url and provider
KeyInit ==
    /\ keyIn \in {p \in KeyArgs \X KeyArgs :
                    p[1].url = p[2].url /\ p[1].provider = p[2].provider}
    /\ keyOut = <<>>

\* the two calls are made
ComputeKeys ==
    /\ keyOut = <<>>
    /\ keyOut' = [i \in 1..2 |->
                    generateCacheKey(keyIn[i].url, keyIn[i].provider, keyIn[i].options)]
    /\ UNCHANGED <<keyIn, cacheVars, llmVars, streamVars, regVars, uiVars>>

(***************************************************************************)
(* ProviderService                                                         *)
(***************************************************************************)
\* AI_PROVIDERS.<id>.defaultModel and .name
DefaultModel(id) ==
    CASE id = "openai" -> "gpt-4o"
      [] id = "anthropic" -> "claude-sonnet-4-20250514"
      [] id = "google" -> "gemini-1.5-flash"

ProviderName(id) ==
    CASE id = "openai" -> "OpenAI GPT-4"
      [] id = "anthropic" -> "Anthropic Claude"
      [] id = "google" -> "Google Gemini"

\* the environments of the model: each credential is unset ("") or set
Environments ==
    [OPENAI_API_KEY : {"", "sk-o"}, ANTHROPIC_API_KEY : {"", "sk-a"},
     GOOGLE_API_KEY : {"", "sk-g"}]

\* one branch of initializeProviders: the provider is added when its key is truthy
AddProvider(m, id, apiKey) ==
    IF apiKey # ""
    THEN Append(m, [key |-> id,
                    value |-> [id |-> id, name |-> ProviderName(id), apiKey |-> apiKey,
                               model |-> DefaultModel(id), enabled |-> TRUE]])
    ELSE m

\* initializeProviders, mutated: the providers are registered in alphabetical
\* order
initializeProvidersAlphabetical(env) ==
    AddProvider(AddProvider(AddProvider(<<>>, "anthropic", env.ANTHROPIC_API_KEY),
                            "google", env.GOOGLE_API_KEY),
                "openai", env.OPENAI_API_KEY)

\* ProviderService.initializeProviders: openai, then anthropic, then google
initializeProviders(env) ==
    AddProvider(AddProvider(AddProvider(<<>>, "openai", env.OPENAI_API_KEY),
                            "anthropic", env.ANTHROPIC_API_KEY),
                "google", env.GOOGLE_API_KEY)

\* hasProviders, mutated: the registry is never reported empty
hasProvidersAlways(m) == TRUE

\* ProviderService.hasProviders
hasProviders(m) == Len(m) > 0

\* an AIError
AIError(message, code, provider) ==
    [message |-> message, code |-> code, provider |-> provider]

NoError == AIError("", "", Undefined)

\* ProviderService.getDefaultProvider: [ok, id] or [ok = FALSE, error]
getDefaultProvider(m) ==
    IF Len(m) = 0
    THEN [ok |-> FALSE, id |-> Undefined,
          error |-> AIError("No providers available", "API_KEY_MISSING", Undefined)]
    ELSE [ok |-> TRUE, id |-> m[1].value.id, error |-> NoError]

\* ProviderService.validateProvider, mutated: a provider that is not
\* registered is reported as one without an API key
validateProviderKeyOnly(m, providerId) ==
    IF ~MapHas(m, providerId) \/ MapGet(m, providerId).apiKey = ""
    THEN [ok |-> FALSE, provider |-> Undefined,
          error |-> AIError("API key not configured for provider " \o providerId,
                            "API_KEY_MISSING", providerId)]
    ELSE [ok |-> TRUE, provider |-> providerId, error |-> NoError]

\* ProviderService.validateProvider: [ok, provider] or [ok = FALSE, error]
validateProvider(m, providerId) ==
    IF ~MapHas(m, providerId)
    THEN [ok |-> FALSE, provider |-> Undefined,
          error |-> AIError("Provider " \o providerId \o " not found",
                            "AI_PROVIDER_ERROR", providerId)]
    ELSE IF MapGet(m, providerId).apiKey = ""
    THEN [ok |-> FALSE, provider |-> Undefined,
          error |-> AIError("API key not configured for provider " \o providerId,
                            "API_KEY_MISSING", providerId)]
    ELSE [ok |-> TRUE, provider |-> providerId, error |-> NoError]

\* ProviderService.getModelForProvider: the backends that have a constructor
SupportedProvider(id) == id \in {"openai", "anthropic", "google"}

\* ProviderService.getProviders, as the ids of Array.from(providers.values())
getProviders(m) == [i \in 1..Len(m) |-> m[i].value.id]

\* ProviderService.getProvider: the id of the entry, Undefined when there is none
getProvider(m, providerId) ==
    IF MapHas(m, providerId) THEN MapGet(m, providerId).id ELSE Undefined

\* a call of a ProviderService method: ok is FALSE when it threw (for
\* hasProviders it is the value returned); id and ids are what it returned
RegCall(op, arg, ok, id, ids, error) ==
    [op |-> op, arg |-> arg, ok |-> ok, id |-> id, ids |-> ids, error |-> error]

NoRegCall == RegCall("none", "", TRUE, Undefined, <<>>, NoError)

\* no credential is set
NoKeysSet == [OPENAI_API_KEY |-> "", ANTHROPIC_API_KEY |-> "", GOOGLE_API_KEY |-> ""]

\* reg: the environment the service was constructed in and its last call
RegIdle == reg = [env |-> NoKeysSet, call |-> NoRegCall]

GetProviders ==
    /\ reg' = [reg EXCEPT !.call = RegCall("getProviders", "", TRUE, Undefined,
                                           getProviders(providers), NoError)]
    /\ UNCHANGED <<cacheVars, keyVars, llmVars, streamVars, uiVars>>

GetProvider(providerId) ==
    /\ reg' = [reg EXCEPT !.call = RegCall("getProvider", providerId, TRUE,
                                           getProvider(providers, providerId), <<>>,
                                           NoError)]
    /\ UNCHANGED <<cacheVars, keyVars, llmVars, streamVars, uiVars>>

GetDefaultProvider ==
    /\ LET r == getDefaultProvider(providers)
       IN  reg' = [reg EXCEPT !.call = RegCall("getDefaultProvider", "", r.ok, r.id, <<>>,
                                               r.error)]
    /\ UNCHANGED <<cacheVars, keyVars, llmVars, streamVars, uiVars>>

HasProviders ==
    /\ reg' = [reg EXCEPT !.call = RegCall("hasProviders", "", hasProviders(providers),
                                           Undefined, <<>>, NoError)]
    /\ UNCHANGED <<cacheVars, keyVars, llmVars, streamVars, uiVars>>

ValidateProvider(providerId) ==
    /\ LET r == validateProvider(providers, providerId)
       IN  reg' = [reg EXCEPT !.call = RegCall("validateProvider", providerId, r.ok,
                                               r.provider, <<>>, r.error)]
    /\ UNCHANGED <<cacheVars, keyVars, llmVars, streamVars, uiVars>>

(***************************************************************************)
(* PromptService                                                           *)
(***************************************************************************)
\* PromptService.generatePrompt: the template with the url filled in (the
\* template's fixed text is shortened)
generatePrompt(url) == "RECREATE the website for: " \o url \o "\n<thinking>...<code>..."

(***************************************************************************)
(* LLMService.generateWebsite                                              *)
(***************************************************************************)
\* AI_TOKEN_LIMITS.DEFAULT_MAX_TOKENS and .STREAMING_MAX_TOKENS
DEFAULT_MAX_TOKENS == 4000
STREAMING_MAX_TOKENS == 60000

\* the default temperature of both services, in tenths
DefaultTemperature == 7

\* options.<name>: the property's value, UndefinedNum when the object has none
OptionValue(o, name) ==
    IF \E i \in 1..Len(o) : o[i].name = name
    THEN o[CHOOSE i \in 1..Len(o) : o[i].name = name].value
    ELSE UndefinedNum

\* x || d for a number x: d when x is undefined or 0
OrDefault(x, d) == IF x = UndefinedNum \/ x = 0 THEN d ELSE x

\* the arguments generateWebsite gives generateText
GenerateTextArgs(provider, model, url, options) ==
    [fn |-> "generateText", provider |-> provider, model |-> model,
     prompt |-> generatePrompt(url),
     temperature |-> OrDefault(OptionValue(options, "temperature"), DefaultTemperature),
     maxOutputTokens |-> OrDefault(OptionValue(options, "maxTokens"), DEFAULT_MAX_TOKENS)]

NoArgs ==
    [fn |-> "", provider |-> "", model |-> "", prompt |-> "", temperature |-> 0,
     maxOutputTokens |-> 0]

\* an AIResponse; tokensUsed is UndefinedNum when the result has no usage
AIResponse(content, provider, model, timestamp, tokensUsed, responseTime) ==
    [content |-> content, provider |-> provider, model |-> model,
     timestamp |-> timestamp,
     metadata |-> [tokensUsed |-> tokensUsed, responseTime |-> responseTime]]

NoResponse == AIResponse("", "", "", 0, UndefinedNum, 0)

\* a call that is not suspended; backendCalls is the number of generateText
\* calls a suspended call has made
IdleSlot ==
    [pc |-> "idle", url |-> "", provider |-> "", options |-> <<>>, cacheKey |-> "",
     args |-> NoArgs, backendCalls |-> 0]

\* nothing was thrown
NoThrown == [isError |-> FALSE, message |-> ""]

\* how a call ended: status is "returned" or "failed"; backendCalls is the number
\* of generateText calls it made; hit is TRUE when it was served from the cache;
\* cause is what generateText threw
Ended(slot, key, status, response, error, backendCalls, hit, cause) ==
    [slot |-> slot, cacheKey |-> key, status |-> status, response |-> response,
     error |-> error, backendCalls |-> backendCalls, hit |-> hit, cause |-> cause]

NoRet == Ended(0, "", "none", NoResponse, NoError, 0, FALSE, NoThrown)

\* the catch block of generateWebsite, mutated: the message is dropped
WrapMessageGeneric(thrown) == "Failed to generate content: Unknown error"

\* the message of the AIError the catch block of generateWebsite throws
WrapMessage(thrown) ==
    "Failed to generate content: "
        \o (IF thrown.isError THEN thrown.message ELSE "Unknown error")

\* a cache hit of generateWebsite, mutated: the entry that was read is made the
\* most recent one
CacheAfterHitRefresh(m, key) == Append(MapDelete(m, key), m[MapIndex(m, key)])

\* the cache after a cache hit of generateWebsite: it is not written
CacheAfterHit(m, key) == m

\* generateWebsite up to its first suspension: the default provider, the cache
\* check, the validation of the provider and the call of generateText
GenerateWebsite(i, req) ==
    /\ slots[i].pc = "idle"
    /\ LET dflt == getDefaultProvider(providers)
           provider == IF req.provider = Undefined THEN dflt.id ELSE req.provider
           cacheKey == generateCacheKey(req.url, provider, req.options)
           valid == validateProvider(providers, provider)
       IN  IF req.provider = Undefined /\ ~dflt.ok
           THEN /\ ret' = Ended(i, "", "failed", NoResponse, dflt.error, 0, FALSE, NoThrown)
                /\ UNCHANGED <<slots, cache>>
           ELSE IF MapHas(cache, cacheKey)
           THEN /\ ret' = Ended(i, cacheKey, "returned", MapGet(cache, cacheKey),
                                NoError, 0, TRUE, NoThrown)
                /\ cache' = CacheAfterHit(cache, cacheKey)
                /\ UNCHANGED slots
           ELSE IF ~valid.ok
           THEN /\ ret' = Ended(i, cacheKey, "failed", NoResponse, valid.error, 0, FALSE,
                                NoThrown)
                /\ UNCHANGED <<slots, cache>>
           ELSE IF ~SupportedProvider(provider)
           THEN /\ ret' = Ended(i, cacheKey, "failed", NoResponse,
                                AIError(WrapMessage([isError |-> TRUE,
                                            message |-> "Unsupported provider: " \o provider]),
                                        "CONTENT_GENERATION_FAILED", provider),
                                0, FALSE, NoThrown)
                /\ UNCHANGED <<slots, cache>>
           ELSE /\ slots' = [slots EXCEPT ![i] =
                               [pc |-> "invoking", url |-> req.url, provider |-> provider,
                                options |-> req.options, cacheKey |-> cacheKey,
                                args |-> GenerateTextArgs(provider,
                                            MapGet(providers, provider).model,
                                            req.url, req.options),
                                backendCalls |-> 1]]
                /\ UNCHANGED <<ret, cache>>
    /\ UNCHANGED <<tick, calls, keyVars, providers, streamVars, regVars, uiVars>>

\* the cache after a failed generateText: it is not written
CacheAfterFailure(m, key) == m

\* generateText resolves: the response is built, cached and returned
GenerateTextResolves(i, text, totalTokens, timestamp, responseTime) ==
    /\ slots[i].pc = "invoking"
    /\ tick < MaxInserts
    /\ LET s == slots[i]
           response == AIResponse(text, MapGet(providers, s.provider).id,
                                  MapGet(providers, s.provider).model,
                                  timestamp, totalTokens, responseTime)
       IN  /\ cache' = CacheSet(cache, s.cacheKey, response, tick + 1)
           /\ tick' = IF MapHas(cache', s.cacheKey) /\ ~MapHas(cache, s.cacheKey)
                      THEN tick + 1 ELSE tick
           /\ ret' = Ended(i, s.cacheKey, "returned", response, NoError,
                           s.backendCalls, FALSE, NoThrown)
    /\ slots' = [slots EXCEPT ![i] = IdleSlot]
    /\ UNCHANGED <<calls, keyVars, providers, streamVars, regVars, uiVars>>

\* generateText rejects: the catch block wraps what was thrown
GenerateTextRejects(i, thrown) ==
    /\ slots[i].pc = "invoking"
    /\ LET s == slots[i]
       IN  /\ ret' = Ended(i, s.cacheKey, "failed", NoResponse,
                           AIError(WrapMessage(thrown), "CONTENT_GENERATION_FAILED",
                                   s.provider),
                           s.backendCalls, FALSE, thrown)
           /\ cache' = CacheAfterFailure(cache, s.cacheKey)
    /\ slots' = [slots EXCEPT ![i] = IdleSlot]
    /\ UNCHANGED <<tick, calls, keyVars, providers, streamVars, regVars, uiVars>>

\* LLMService.clearCache
ClearCache ==
    /\ Len(cache) > 0
    /\ cache' = <<>>
    /\ UNCHANGED <<tick, calls, keyVars, llmVars, streamVars, regVars, uiVars>>

(***************************************************************************)
(* StreamingService.streamWebsite                                          *)
(*                                                                         *)
(* Date.now() is read as the milliseconds since startTime (st.now); every  *)
(* event the generator consumes arrives dt milliseconds after the one      *)
(* before.  Speeds are exact fractions [num, den] in lowest terms.         *)
(***************************************************************************)
RECURSIVE GCD(_, _)
GCD(a, b) == IF b = 0 THEN a ELSE GCD(b, a % b)

\* the fraction n / d in lowest terms (n >= 0, d > 0)
Rat(n, d) == LET g == GCD(n, d) IN [num |-> n \div g, den |-> d \div g]

RatZero == [num |-> 0, den |-> 1]

RatAdd(a, b) == Rat(a.num * b.den + b.num * a.den, a.den * b.den)

\* the token estimate, mutated: rounded down
FloorDiv4(n) == n \div 4

\* Math.ceil(length / 4)
CeilDiv4(n) == (n + 3) \div 4

\* finish.totalUsage: absent, or its three counts (UndefinedNum when not given)
Usage(i, o, t) ==
    [present |-> TRUE, inputTokens |-> i, outputTokens |-> o, totalTokens |-> t]

NoUsage ==
    [present |-> FALSE, inputTokens |-> UndefinedNum, outputTokens |-> UndefinedNum,
     totalTokens |-> UndefinedNum]

\* the parts of stream.fullStream
TextDelta(text) == [type |-> "text-delta", text |-> text, totalUsage |-> NoUsage]
Finish(usage) == [type |-> "finish", text |-> "", totalUsage |-> usage]
ErrorPart == [type |-> "error", text |-> "", totalUsage |-> NoUsage]
OtherPart == [type |-> "reasoning-delta", text |-> "", totalUsage |-> NoUsage]

\* an AIStreamChunk
Chunk(content, done, tokensUsed, inputTokens, outputTokens, responseTime, tokenSpeed) ==
    [content |-> content, done |-> done,
     metadata |-> [tokensUsed |-> tokensUsed, inputTokens |-> inputTokens,
                   outputTokens |-> outputTokens, responseTime |-> responseTime,
                   tokenSpeed |-> tokenSpeed]]

\* the generator before it is called
IdleStream ==
    [pc |-> "idle", url |-> "", provider |-> "", options |-> <<>>, prompt |-> "",
     args |-> NoArgs, now |-> 0, totalTokens |-> 0, inputTokens |-> 0,
     outputTokens |-> 0, chunkCount |-> 0, hasReceivedContent |-> FALSE,
     lastChunkTime |-> 0, lastOutputTokens |-> 0, totalSpeedMeasurements |-> 0,
     cumulativeSpeed |-> RatZero, error |-> NoError]

\* the backend call: the number of streamText calls, the text fragments the
\* generation has produced so far, the number of items read from each of its
\* two streams, how the reading of fullStream failed ("" when it did not), the
\* number of chunks that had been yielded when it failed, the text fragments
\* the generator has read from either stream, in order, and the totalUsage of
\* the finish part it has read
IdleGen ==
    [streamTextCalls |-> 0, fragments |-> <<>>, fullRead |-> 0, textRead |-> 0,
     fullFailure |-> "", yieldedAtFailure |-> 0, consumed |-> <<>>,
     usage |-> NoUsage]

StreamIdle == st = IdleStream /\ yielded = <<>> /\ gen = IdleGen

\* the arguments streamWebsite gives streamText
StreamTextArgs(provider, model, prompt, options) ==
    [fn |-> "streamText", provider |-> provider, model |-> model, prompt |-> prompt,
     temperature |-> OrDefault(OptionValue(options, "temperature"), DefaultTemperature),
     maxOutputTokens |-> OrDefault(OptionValue(options, "maxTokens"), STREAMING_MAX_TOKENS)]

\* the message of the AIError the outer catch block of streamWebsite throws
StreamWrapMessage(thrown) ==
    "Failed to stream content: "
        \o (IF thrown.isError THEN thrown.message ELSE "Unknown error")

\* streamWebsite, mutated: the finished stream is stored like a generated response
CacheAfterStreamStore(m, s) ==
    IF s.pc = "ended"
    THEN CacheSet(m, generateCacheKey(s.url, s.provider, s.options),
                  AIResponse("", s.provider, s.args.model, 0, s.totalTokens, s.now), 1)
    ELSE m

\* the cache after any step of streamWebsite: the generator has no access to it
CacheAfterStream(m, s) == m

\* LLMService.streamWebsite and StreamingService.streamWebsite up to the first
\* read of stream.fullStream
StreamWebsite(req) ==
    /\ st.pc = "idle"
    /\ LET dflt == getDefaultProvider(providers)
           provider == IF req.provider = Undefined THEN dflt.id ELSE req.provider
           prompt == generatePrompt(req.url)
           valid == validateProvider(providers, provider)
           called == [st EXCEPT !.url = req.url, !.provider = provider,
                                !.options = req.options, !.prompt = prompt]
           Fail(e) == /\ st' = [called EXCEPT !.pc = "failed", !.error = e]
                      /\ UNCHANGED gen
       IN  IF req.provider = Undefined /\ ~dflt.ok
           THEN /\ st' = [st EXCEPT !.pc = "failed", !.url = req.url, !.error = dflt.error,
                                    !.options = req.options]
                /\ UNCHANGED gen
           ELSE IF ~hasProviders(providers)
           THEN Fail(AIError("No AI providers configured. Please set up API keys.",
                             "API_KEY_MISSING", Undefined))
           ELSE IF ~valid.ok
           THEN Fail(valid.error)
           ELSE IF ~SupportedProvider(provider)
           THEN Fail(AIError(StreamWrapMessage([isError |-> TRUE,
                                 message |-> "Unsupported provider: " \o provider]),
                             "CONTENT_GENERATION_FAILED", provider))
           ELSE /\ st' = [called EXCEPT
                            !.pc = "full",
                            !.args = StreamTextArgs(provider,
                                        MapGet(providers, provider).model, prompt,
                                        req.options),
                            !.inputTokens = CeilDiv4(Len(prompt))]
                /\ gen' = [gen EXCEPT !.streamTextCalls = @ + 1]
    /\ cache' = CacheAfterStream(cache, st')
    /\ UNCHANGED <<yielded, tick, calls, keyVars, llmVars, regVars, uiVars>>

\* the body both loops run for a text fragment that arrives at time `now`: the
\* counters after it and, for a non-empty fragment, the chunk that is yielded
AfterDelta(s, textDelta, now) ==
    IF Len(textDelta) > 0
    THEN LET outputTokens == s.outputTokens + CeilDiv4(Len(textDelta))
             timeSinceLastChunk == now - s.lastChunkTime
             tokensSinceLastChunk == outputTokens - s.lastOutputTokens
             tokenSpeed == IF timeSinceLastChunk > 0
                           THEN Rat(tokensSinceLastChunk * 1000, timeSinceLastChunk)
                           ELSE RatZero
         IN  [s EXCEPT !.now = now,
                       !.chunkCount = @ + 1,
                       !.hasReceivedContent = TRUE,
                       !.outputTokens = outputTokens,
                       !.totalTokens = s.inputTokens + outputTokens,
                       !.totalSpeedMeasurements =
                            IF tokenSpeed.num > 0 THEN @ + 1 ELSE @,
                       !.cumulativeSpeed =
                            IF tokenSpeed.num > 0 THEN RatAdd(@, tokenSpeed) ELSE @,
                       !.lastChunkTime = now,
                       !.lastOutputTokens = outputTokens]
    ELSE [s EXCEPT !.now = now, !.chunkCount = @ + 1]

\* the chunk yielded for a non-empty fragment; s is the state after AfterDelta
DeltaChunk(s, before, textDelta) ==
    Chunk(textDelta, FALSE, s.totalTokens, s.inputTokens, s.outputTokens, s.now,
          IF s.now - before.lastChunkTime > 0
          THEN Rat((s.outputTokens - before.lastOutputTokens) * 1000,
                   s.now - before.lastChunkTime)
          ELSE RatZero)

\* the yield of the loops, mutated: a chunk is yielded for an empty fragment too
YieldDeltaEvery(s, before, textDelta) ==
    Append(yielded, DeltaChunk(s, before, textDelta))

\* the yield of both loops: only a non-empty fragment is passed on
YieldDelta(s, before, textDelta) ==
    IF Len(textDelta) > 0 THEN Append(yielded, DeltaChunk(s, before, textDelta))
    ELSE yielded

\* the counters after a finish part: totalUsage, when given, replaces them
\* (a || b keeps b when a is undefined or 0)
AfterFinish(s, usage, now) ==
    IF usage.present
    THEN LET inputTokens == OrDefault(usage.inputTokens, s.inputTokens)
             outputTokens == OrDefault(usage.outputTokens, s.outputTokens)
         IN  [s EXCEPT !.now = now, !.chunkCount = @ + 1,
                       !.inputTokens = inputTokens,
                       !.outputTokens = outputTokens,
                       !.totalTokens = OrDefault(usage.totalTokens,
                                                 inputTokens + outputTokens)]
    ELSE [s EXCEPT !.now = now, !.chunkCount = @ + 1]

\* the final chunk, mutated: it reports the speed of the last content chunk
FinalChunkLastSpeed(s) ==
    Chunk("", TRUE, s.totalTokens, s.inputTokens, s.outputTokens, s.now,
          IF Len(yielded) > 0 THEN yielded[Len(yielded)].metadata.tokenSpeed
          ELSE RatZero)

\* the final chunk: empty, done, with the average of the measured speeds
FinalChunk(s) ==
    Chunk("", TRUE, s.totalTokens, s.inputTokens, s.outputTokens, s.now,
          IF s.totalSpeedMeasurements > 0
          THEN Rat(s.cumulativeSpeed.num,
                   s.cumulativeSpeed.den * s.totalSpeedMeasurements)
          ELSE RatZero)

\* the code after the loops, mutated: returns without a final chunk when no
\* content was received
CompleteSkipEmpty(s) ==
    /\ st' = [s EXCEPT !.pc = "ended"]
    /\ yielded' = IF s.hasReceivedContent THEN Append(yielded, FinalChunk(s)) ELSE yielded

\* the code after the loops, mutated: nothing is yielded and the reading of
\* the stream goes on
CompleteReadsOn(s) ==
    /\ st' = s
    /\ yielded' = yielded

\* the code after the loops, mutated: the generator returns without a final
\* chunk
CompleteWithoutChunk(s) ==
    /\ st' = [s EXCEPT !.pc = "ended"]
    /\ yielded' = yielded

\* the code after the loops: the final chunk is yielded and the generator returns
Complete(s) ==
    /\ st' = [s EXCEPT !.pc = "ended"]
    /\ yielded' = Append(yielded, FinalChunk(s))

\* the inner catch block, mutated: the backend call is started again
FallBackRestart(s, how, read) ==
    /\ st' = [s EXCEPT !.pc = "text"]
    /\ gen' = [gen EXCEPT !.fullRead = @ + read, !.fullFailure = how,
                          !.yieldedAtFailure = Len(yielded),
                          !.streamTextCalls = @ + 1]
    /\ UNCHANGED yielded

\* the inner catch block: whatever was thrown while fullStream was read, the
\* generator goes on to read stream.textStream
FallBack(s, how, read) ==
    /\ st' = [s EXCEPT !.pc = "text"]
    /\ gen' = [gen EXCEPT !.fullRead = @ + read, !.fullFailure = how,
                          !.yieldedAtFailure = Len(yielded)]
    /\ UNCHANGED yielded

\* a part of another type, mutated: it is counted as a measurement of speed
AfterOtherMeasured(s, now) ==
    [s EXCEPT !.now = now, !.chunkCount = @ + 1, !.lastChunkTime = now,
              !.totalSpeedMeasurements = @ + 1]

\* a part of fullStream that is no text-delta, finish or error: chunkCount is
\* incremented and the loop continues
AfterOther(s, now) == [s EXCEPT !.now = now, !.chunkCount = @ + 1]

\* one iteration of `for await (const chunk of stream.fullStream)`
FullStreamPart(part, dt) ==
    /\ st.pc = "full"
    /\ LET now == st.now + dt
       IN  CASE part.type = "text-delta" ->
                    LET s == AfterDelta(st, part.text, now)
                    IN  /\ st' = s
                        /\ yielded' = YieldDelta(s, st, part.text)
                        /\ gen' = [gen EXCEPT !.fullRead = @ + 1,
                                              !.fragments = Append(@, part.text),
                                              !.consumed = Append(@, part.text)]
             [] part.type = "finish" ->
                    /\ Complete(AfterFinish(st, part.totalUsage, now))
                    /\ gen' = [gen EXCEPT !.fullRead = @ + 1,
                                          !.usage = part.totalUsage]
             [] part.type = "error" ->
                    FallBack([st EXCEPT !.now = now, !.chunkCount = @ + 1], "error-part", 1)
             [] OTHER ->
                    /\ st' = AfterOther(st, now)
                    /\ gen' = [gen EXCEPT !.fullRead = @ + 1]
                    /\ UNCHANGED yielded
    /\ cache' = CacheAfterStream(cache, st')
    /\ UNCHANGED <<tick, calls, keyVars, llmVars, regVars, uiVars>>

\* stream.fullStream is exhausted without a finish part
FullStreamEnds ==
    /\ st.pc = "full"
    /\ Complete(st)
    /\ cache' = CacheAfterStream(cache, st')
    /\ UNCHANGED <<gen, tick, calls, keyVars, llmVars, regVars, uiVars>>

\* reading stream.fullStream throws
FullStreamRaises ==
    /\ st.pc = "full"
    /\ FallBack(st, "raised", 0)
    /\ cache' = CacheAfterStream(cache, st')
    /\ UNCHANGED <<tick, calls, keyVars, llmVars, regVars, uiVars>>

\* one iteration of `for await (const chunk of stream.textStream)`.  The text
\* stream is another view of the same generation: it first delivers again the
\* fragments the generation has produced, then the ones it goes on to produce.
TextStreamPart(text, dt) ==
    /\ st.pc = "text"
    /\ LET replay == gen.textRead < Len(gen.fragments)
           textDelta == IF replay THEN gen.fragments[gen.textRead + 1] ELSE text
           s == AfterDelta(st, textDelta, st.now + dt)
       IN  /\ replay => text = ""
           /\ st' = s
           /\ yielded' = YieldDelta(s, st, textDelta)
           /\ gen' = [gen EXCEPT !.textRead = @ + 1,
                                 !.fragments = IF replay THEN @ ELSE Append(@, textDelta),
                                 !.consumed = Append(@, textDelta)]
    /\ cache' = CacheAfterStream(cache, st')
    /\ UNCHANGED <<tick, calls, keyVars, llmVars, regVars, uiVars>>

\* stream.textStream is exhausted
TextStreamEnds ==
    /\ st.pc = "text"
    /\ gen.textRead >= Len(gen.fragments)
    /\ Complete(st)
    /\ cache' = CacheAfterStream(cache, st')
    /\ UNCHANGED <<gen, tick, calls, keyVars, llmVars, regVars, uiVars>>

\* reading stream.textStream throws: the outer catch block wraps what was thrown
TextStreamRaises(thrown) ==
    /\ st.pc = "text"
    /\ st' = [st EXCEPT !.pc = "failed",
                        !.error = AIError(StreamWrapMessage(thrown),
                                          "CONTENT_GENERATION_FAILED", st.provider)]
    /\ cache' = CacheAfterStream(cache, st')
    /\ UNCHANGED <<yielded, gen, tick, calls, keyVars, llmVars, regVars, uiVars>>

\* the consumer stops pulling: the generator is closed where it is suspended
Abandon ==
    /\ st.pc \in {"full", "text"}
    /\ st' = [st EXCEPT !.pc = "abandoned"]
    /\ cache' = CacheAfterStream(cache, st')
    /\ UNCHANGED <<yielded, gen, tick, calls, keyVars, llmVars, regVars, uiVars>>

(***************************************************************************)
(* String methods of the UI code.  Positions count from 1; a string is     *)
(* read with Len, SubSeq, Head, Tail and \o.                               *)
(***************************************************************************)
\* Math.min and Math.max of a set of positions
Least(I) == CHOOSE i \in I : \A j \in I : i <= j

Greatest(I) == 0 - Least({0 - i : i \in I})

\* s.indexOf(pat) at or after position from; 0 when there is none
IndexOf(s, pat, from) ==
    LET First(I) == IF I = {} THEN 0 ELSE Least(I)
    IN  First({i \in from..(Len(s) - Len(pat) + 1) : SubSeq(s, i, i + Len(pat) - 1) = pat})

Includes(s, pat) == IndexOf(s, pat, 1) > 0

StartsWith(s, pat) == Len(s) >= Len(pat) /\ SubSeq(s, 1, Len(pat)) = pat

\* the small letter of each capital letter
LowerCase ==
    [c \in {SubSeq("ABCDEFGHIJKLMNOPQRSTUVWXYZ", i, i) : i \in 1..26} |->
        LET i == CHOOSE i \in 1..26 : SubSeq("ABCDEFGHIJKLMNOPQRSTUVWXYZ", i, i) = c
        IN  SubSeq("abcdefghijklmnopqrstuvwxyz", i, i)]

\* s.toLowerCase(), which is how a pattern with the flag i reads s: every
\* capital letter of s is replaced, from the first one on
RECURSIVE Lower(_)
Lower(s) ==
    LET From(capitals) ==
            IF capitals = {} THEN s
            ELSE SubSeq(s, 1, Least(capitals) - 1)
                    \o LowerCase[SubSeq(s, Least(capitals), Least(capitals))]
                    \o Lower(SubSeq(s, Least(capitals) + 1, Len(s)))
    IN  From({i \in 1..Len(s) : SubSeq(s, i, i) \in DOMAIN LowerCase})

\* s.trim()
Trim(s) ==
    LET Kept(K) == IF K = {} THEN "" ELSE SubSeq(s, Least(K), Greatest(K))
    IN  Kept({i \in 1..Len(s) : SubSeq(s, i, i) \notin {" ", "\t", "\n", "\r"}})

\* s.match(/open([\s\S]*?)close/i), low being s in small letters: the first
\* occurrence of open and the first occurrence of close after it; text is the
\* match and inner its group
MatchLowered(s, low, open, close) ==
    LET Between(a, b) ==
            IF b = 0
            THEN [found |-> FALSE, from |-> 0, to |-> 0, text |-> "", inner |-> ""]
            ELSE [found |-> TRUE, from |-> a, to |-> b + Len(close) - 1,
                  text |-> SubSeq(s, a, b + Len(close) - 1),
                  inner |-> SubSeq(s, a + Len(open), b - 1)]
        Opened(a) ==
            Between(a, IF a = 0 THEN 0 ELSE IndexOf(low, close, a + Len(open)))
    IN  Opened(IndexOf(low, open, 1))

Match(s, open, close) == MatchLowered(s, Lower(s), open, close)

\* s.replace(/open[\s\S]*?close/gi, '')
RECURSIVE RemoveAll(_, _, _)
RemoveAll(s, open, close) ==
    LET Cut(m) ==
            IF ~m.found THEN s
            ELSE SubSeq(s, 1, m.from - 1)
                    \o RemoveAll(SubSeq(s, m.to + 1, Len(s)), open, close)
    IN  Cut(Match(s, open, close))

\* the n characters of s from position i on, fewer where s ends before
Sub(s, i, n) ==
    IF i > Len(s) \/ n <= 0 THEN ""
    ELSE SubSeq(s, i, IF i + n - 1 > Len(s) THEN Len(s) ELSE i + n - 1)

\* s.replace(pattern, by) of a pattern with the flag g: ends[i] is the last
\* position of the match that starts at position i; the matches are replaced
\* from the left, each search going on after the match before
RECURSIVE ReplaceAll(_, _, _, _)
ReplaceAll(s, ends, from, by) ==
    LET Replaced(i) ==
            IF i = 0 THEN Sub(s, from, Len(s))
            ELSE Sub(s, from, i - from) \o by \o ReplaceAll(s, ends, ends[i] + 1, by)
        Leftmost(I) == IF I = {} THEN 0 ELSE Least(I)
    IN  Replaced(Leftmost({i \in DOMAIN ends : i >= from}))

\* s.split('\n')
RECURSIVE Split(_)
Split(s) ==
    LET At(i) ==
            IF i = 0 THEN <<s>>
            ELSE <<SubSeq(s, 1, i - 1)>> \o Split(SubSeq(s, i + 1, Len(s)))
    IN  At(IndexOf(s, "\n", 1))

\* lines.join('\n')
RECURSIVE Join(_)
Join(q) ==
    IF q = <<>> THEN ""
    ELSE IF Len(q) = 1 THEN q[1]
    ELSE q[1] \o "\n" \o Join(Tail(q))

(***************************************************************************)
(* BrowserUI: the stream callback and the extraction of the reasoning and  *)
(* the document from the accumulated text.  The pictographs of the         *)
(* headings are written as their names in parentheses, and the grave       *)
(* accent of a fence as the character ~.                                   *)
(***************************************************************************)
\* the closing tags, mutated: the body is never closed
addClosingTagsHtmlOnly(extractedHtml) ==
    extractedHtml
        \o (IF /\ \/ Includes(extractedHtml, "<html")
                  \/ Includes(extractedHtml, "<!DOCTYPE")
               /\ ~Includes(extractedHtml, "</html>")
            THEN "\n</html>" ELSE "")

\* extractHTMLFromContent where it found a first line and no last one: the
\* closing tags it adds for the opening tags that need them
addClosingTags(extractedHtml) ==
    LET needsBodyClose ==
            /\ Includes(extractedHtml, "<body")
            /\ ~Includes(extractedHtml, "</body>")
        needsHtmlClose ==
            /\ \/ Includes(extractedHtml, "<html")
               \/ Includes(extractedHtml, "<!DOCTYPE")
            /\ ~Includes(extractedHtml, "</html>")
    IN  extractedHtml \o (IF needsBodyClose THEN "\n</body>" ELSE "")
                      \o (IF needsHtmlClose THEN "\n</html>" ELSE "")

\* BrowserUI.extractHTMLFromContent
extractHTMLFromContent(content) ==
    LET StartsHtml(line) ==
            \/ StartsWith(line, "<!DOCTYPE")
            \/ StartsWith(line, "<html")
            \/ StartsWith(line, "<") /\ Includes(line, "html") /\ Includes(line, ">")
        Completed(foundEndTag, extractedHtml) ==
            IF ~foundEndTag /\ Trim(extractedHtml) # "" THEN addClosingTags(extractedHtml)
            ELSE extractedHtml
        \* the backwards loop over htmlLines, ends being the lines with '</html>'
        Sliced(htmlLines, ends) ==
            Completed(ends # {},
                  Join(SubSeq(htmlLines, 1,
                              IF ends # {} THEN Greatest(ends) ELSE Len(htmlLines))))
        From(htmlLines) ==
            Sliced(htmlLines,
                   {i \in 1..Len(htmlLines) : Includes(Trim(htmlLines[i]), "</html>")})
        \* the forward loop over lines, starts being the lines that start HTML
        Scanned(lines, starts) ==
            IF starts = {} THEN ""
            ELSE From(SubSeq(lines, Least(starts), Len(lines)))
        Lines(lines) ==
            Scanned(lines, {i \in 1..Len(lines) : StartsHtml(Trim(lines[i]))})
        Generic(cleanedContent, genericCodeMatch, blockContent) ==
            IF /\ genericCodeMatch.found
               /\ \/ Includes(blockContent, "<!DOCTYPE html>")
                  \/ Includes(blockContent, "<html")
            THEN blockContent
            ELSE Lines(Split(cleanedContent))
        Fenced(cleanedContent, codeBlockMatch, genericCodeMatch) ==
            IF codeBlockMatch.found THEN Trim(codeBlockMatch.inner)
            ELSE Generic(cleanedContent, genericCodeMatch, Trim(genericCodeMatch.inner))
        Tagged(cleanedContent, low, htmlMatch, htmlTagMatch) ==
            IF htmlMatch.found THEN htmlMatch.text
            ELSE IF htmlTagMatch.found THEN htmlTagMatch.text
            ELSE Fenced(cleanedContent,
                        MatchLowered(cleanedContent, low, "~~~html", "~~~"),
                        MatchLowered(cleanedContent, low, "~~~", "~~~"))
        Lowered(cleanedContent, low) ==
            Tagged(cleanedContent, low,
                   MatchLowered(cleanedContent, low, "<!doctype html>", "</html>"),
                   MatchLowered(cleanedContent, low, "<html", "</html>"))
        Cleaned(cleanedContent) == Lowered(cleanedContent, Lower(cleanedContent))
    IN  Cleaned(Trim(RemoveAll(RemoveAll(content, "<thinking>", "</thinking>"),
                               "<reasoning>", "</reasoning>")))

\* the fields after construction (currentState is written field by field;
\* backDisabled and forwardDisabled are the disabled properties of the back
\* and forward buttons, as the constructor's updateUI call leaves them;
\* navigationHistory holds the url and the title of each entry, and
\* currentHistoryIndex counts from 0 as the code does), and four ghosts: how
\* each generateWebsite call stands ("streaming", "done" once its final chunk
\* was handled, "settled", "failed"), the url each call sent with its stream
\* request, the number of chunks with content handled, and the last event
\* handled
IdleUI ==
    [isStreaming |-> FALSE, streamContent |-> "", thoughtContent |-> "",
     codeContent |-> "", lastInputTokens |-> 0, lastOutputTokens |-> 0,
     lastResponseTime |-> 0, lastTokenSpeed |-> RatZero,
     averageTokenSpeed |-> RatZero, totalSpeedMeasurements |-> 0,
     cumulativeSpeed |-> RatZero, status |-> "Ready", progress |-> RatZero,
     displayed |-> "", errorShown |-> "",
     currentUrl |-> "", isLoading |-> FALSE, error |-> Undefined,
     canGoBack |-> FALSE, canGoForward |-> FALSE,
     backDisabled |-> TRUE, forwardDisabled |-> TRUE,
     title |-> "Fractal", navigationHistory |-> <<>>, currentHistoryIndex |-> -1,
     requests |-> <<>>, asked |-> <<>>, handled |-> 0, last |-> "none"]

UIIdle == ui = IdleUI

\* BrowserUI.updateUI: the navigation buttons are enabled as the state says
updateUI(u) ==
    [u EXCEPT !.backDisabled = ~u.canGoBack, !.forwardDisabled = ~u.canGoForward]

\* the characters a pattern reads as \w, in a text of small letters
WordChars == {SubSeq("abcdefghijklmnopqrstuvwxyz0123456789_", i, i) : i \in 1..37}

\* BrowserUI.sanitizeContent: four replacements, each over the result of the
\* one before, each pattern read without regard to the case of letters
sanitizeContent(content) ==
    LET Quotes == {"\"", "'"}
        \* /src=["'](?!data:)/
        SrcEnds(low) ==
            [i \in {i \in 1..Len(low) :
                        /\ Sub(low, i, 4) = "src="
                        /\ Sub(low, i + 4, 1) \in Quotes
                        /\ Sub(low, i + 5, 5) # "data:"} |-> i + 4]
        \* /href=["']https?:\/\/[^"']*["']/: where the address starts, 0 when
        \* no match starts at i
        AddressFrom(low, i) ==
            IF Sub(low, i, 5) = "href=" /\ Sub(low, i + 5, 1) \in Quotes
            THEN IF Sub(low, i + 6, 7) = "http://" THEN i + 13
                 ELSE IF Sub(low, i + 6, 8) = "https://" THEN i + 14
                 ELSE 0
            ELSE 0
        Closes(low, p) == {q \in p..Len(low) : Sub(low, q, 1) \in Quotes}
        HrefEnds(low) ==
            [i \in {i \in 1..Len(low) :
                        AddressFrom(low, i) # 0 /\ Closes(low, AddressFrom(low, i)) # {}}
                |-> Least(Closes(low, AddressFrom(low, i)))]
        \* /<link[^>]*href=["']https?:\/\/[^"']*["'][^>]*>/: the last href of
        \* the tag that a '>' follows
        HrefsOf(low, hrefs, i, stop) ==
            {h \in DOMAIN hrefs :
                /\ h >= i + 5
                /\ stop = 0 \/ h < stop
                /\ IndexOf(low, ">", hrefs[h] + 1) > 0}
        LinkEndsOf(low, hrefs) ==
            [i \in {i \in 1..Len(low) :
                        /\ Sub(low, i, 5) = "<link"
                        /\ HrefsOf(low, hrefs, i, IndexOf(low, ">", i + 5)) # {}}
                |-> IndexOf(low, ">",
                        hrefs[Greatest(HrefsOf(low, hrefs, i, IndexOf(low, ">", i + 5)))] + 1)]
        \* /<a\b/
        AnchorEnds(low) ==
            [i \in {i \in 1..Len(low) :
                        Sub(low, i, 2) = "<a" /\ Sub(low, i + 2, 1) \notin WordChars}
                |-> i + 1]
        Anchored(s) ==
            ReplaceAll(s, AnchorEnds(Lower(s)), 1,
                       "<a target=\"_blank\" rel=\"noopener noreferrer\"")
        LinksOf(s, low) == ReplaceAll(s, LinkEndsOf(low, HrefEnds(low)), 1, "")
        Unlinked(s) == Anchored(LinksOf(s, Lower(s)))
        Unreferenced(s) == Unlinked(ReplaceAll(s, HrefEnds(Lower(s)), 1, ""))
    IN  Unreferenced(ReplaceAll(content, SrcEnds(Lower(content)), 1, "data-src=\""))

\* BrowserUI.extractTitle: content.match(/<title[^>]*>([^<]+)<\/title>/i),
\* the trimmed group of the first match and '' when there is none
extractTitle(content) ==
    LET \* the position of the '<' that ends the text of a title opened at i
        TextEnd(low, g) == IF g = 0 THEN 0 ELSE IndexOf(low, "<", g + 1)
        Titles(low) ==
            {i \in 1..Len(low) :
                /\ Sub(low, i, 6) = "<title"
                /\ TextEnd(low, IndexOf(low, ">", i + 6)) > IndexOf(low, ">", i + 6) + 1
                /\ Sub(low, TextEnd(low, IndexOf(low, ">", i + 6)), 8) = "</title>"}
        Group(low, g) == Trim(SubSeq(content, g + 1, TextEnd(low, g) - 1))
        First(low, I) == IF I = {} THEN "" ELSE Group(low, IndexOf(low, ">", Least(I) + 6))
        Lowered(low) == First(low, Titles(low))
    IN  Lowered(Lower(content))

\* BrowserUI.extractDomain: new URL(url).hostname.replace('www.', ''), and
\* url.replace('www.', '') when url does not parse.  An address parses when
\* a scheme and '://' are followed by a host without blanks; the host ends
\* at the first '/'
extractDomain(url) ==
    LET WithoutWww(s, i) ==
            IF i = 0 THEN s ELSE Sub(s, 1, i - 1) \o Sub(s, i + 4, Len(s))
        Unprefixed(s) == WithoutWww(s, IndexOf(s, "www.", 1))
        Host(rest, slash) == IF slash = 0 THEN rest ELSE Sub(rest, 1, slash - 1)
        HostOf(rest) == Host(rest, IndexOf(rest, "/", 1))
        Parsed(host) ==
            IF host = "" \/ Includes(host, " ") THEN Unprefixed(url)
            ELSE Unprefixed(Lower(host))
        After(i) ==
            IF i <= 1 THEN Unprefixed(url)
            ELSE Parsed(HostOf(Sub(url, i + 3, Len(url))))
    IN  After(IndexOf(url, "://", 1))

\* BrowserUI.displayContent and BrowserUI.showError: what the frame shows
displayContent(u, content) ==
    LET Titled(sanitizedContent, title) ==
            [u EXCEPT !.displayed = sanitizedContent, !.errorShown = "",
                      !.title = IF title # "" THEN title
                                ELSE extractDomain(u.currentUrl)]
        Written(sanitizedContent) == Titled(sanitizedContent, extractTitle(sanitizedContent))
    IN  Written(sanitizeContent(content))

showError(u, message) == [u EXCEPT !.displayed = "", !.errorShown = message]

\* parseAndUpdateContent, mutated: the scan of the whole text is tried before
\* the <code> region
parseAndUpdateContentScanFirst(u) ==
    LET Parsed(codeMatch, scanned) ==
            [u EXCEPT !.codeContent = IF scanned # "" THEN scanned
                                      ELSE IF codeMatch.found THEN Trim(codeMatch.inner)
                                      ELSE ""]
    IN  Parsed(Match(u.streamContent, "<code>", "</code>"),
               extractHTMLFromContent(u.streamContent))

\* BrowserUI.parseAndUpdateContent
parseAndUpdateContent(u) ==
    LET Parsed(thinkingMatch, reasoningMatch, codeMatch) ==
            LET combinedThought ==
                    (IF thinkingMatch.found
                     THEN "(thinking) **Thinking**\n" \o Trim(thinkingMatch.inner) \o "\n\n"
                     ELSE "")
                    \o (IF reasoningMatch.found
                        THEN "(bulb) **Reasoning**\n" \o Trim(reasoningMatch.inner)
                        ELSE "")
            IN  [u EXCEPT
                    !.thoughtContent = IF combinedThought # "" THEN combinedThought ELSE @,
                    !.codeContent = IF codeMatch.found THEN Trim(codeMatch.inner)
                                    ELSE extractHTMLFromContent(u.streamContent),
                    !.status = IF codeMatch.found THEN "Generating HTML..." ELSE @]
        Read(low) ==
            Parsed(MatchLowered(u.streamContent, low, "<thinking>", "</thinking>"),
                   MatchLowered(u.streamContent, low, "<reasoning>", "</reasoning>"),
                   MatchLowered(u.streamContent, low, "<code>", "</code>"))
    IN  Read(Lower(u.streamContent))

\* BrowserUI.isHtmlFragment
isHtmlFragment(text) ==
    LET Upper(c) == Includes("ABCDEFGHIJKLMNOPQRSTUVWXYZ", c)
        Small(c) == Includes("abcdefghijklmnopqrstuvwxyz", c)
        Digit(c) == Includes("0123456789", c)
        \* /^[A-Z][a-z]+$/
        Word(w) ==
            /\ Len(w) >= 2
            /\ Upper(SubSeq(w, 1, 1))
            /\ \A i \in 2..Len(w) : Small(SubSeq(w, i, i))
        Fragment(t, low) ==
            \/ \E i \in 1..Len(t) :
                  /\ SubSeq(t, i, i) = " "
                  /\ Word(SubSeq(t, 1, i - 1))
                  /\ Word(SubSeq(t, i + 1, Len(t)))
            \/ \E k \in 1..Len(t) :
                  /\ \A i \in 1..k : Digit(SubSeq(t, i, i))
                  /\ \/ StartsWith(SubSeq(t, k + 1, Len(t)), " views")
                     \/ StartsWith(SubSeq(t, k + 1, Len(t)), "M views")
                     \/ StartsWith(SubSeq(t, k + 1, Len(t)), "K views")
            \/ low \in {"sign in", "search", "home"}
            \/ Includes(low, "thumbnail") \/ Includes(low, "avatar") \/ Includes(low, "icon")
            \/ Word(t)
    IN  Fragment(Trim(text), Lower(Trim(text)))

\* BrowserUI.extractUnstructuredMetadata
extractUnstructuredMetadata(u, content) ==
    LET Stops(trimmed) ==
            \/ StartsWith(trimmed, "<!DOCTYPE")
            \/ StartsWith(trimmed, "<html")
            \/ StartsWith(trimmed, "<") /\ Includes(trimmed, ">")
        Collected(trimmed) ==
            /\ trimmed # ""
            /\ ~StartsWith(trimmed, "<")
            /\ ~StartsWith(trimmed, "~~~")
            /\ ~Includes(trimmed, "DOCTYPE")
            /\ Len(trimmed) > 5
            /\ ~isHtmlFragment(trimmed)
        Explained(thoughtText) ==
            IF thoughtText # ""
            THEN [u EXCEPT !.thoughtContent = "(thought) **AI Explanation**\n" \o thoughtText]
            ELSE u
        Kept(kept) == Explained(Trim(IF kept = <<>> THEN "" ELSE Join(kept) \o "\n"))
        \* the loop over lines until its break, stops being the lines that break
        Read(lines, stops) ==
            Kept(SelectSeq([i \in 1..(IF stops = {} THEN Len(lines) ELSE Least(stops) - 1)
                                |-> Trim(lines[i])],
                           Collected))
        Lines(lines) == Read(lines, {i \in 1..Len(lines) : Stops(Trim(lines[i]))})
    IN  Lines(Split(content))

\* BrowserUI.finalizeGeneration
finalizeGeneration(u) ==
    LET Explained(shown) ==
            IF shown.thoughtContent = "" /\ shown.streamContent # ""
            THEN extractUnstructuredMetadata(shown, shown.streamContent)
            ELSE shown
    IN  Explained(IF u.codeContent # ""
                  THEN [displayContent(u, u.codeContent) EXCEPT
                            !.status = "Website generated successfully"]
                  ELSE [showError(u, "Could not generate clean website content. "
                                        \o "The AI response may be malformed.") EXCEPT
                            !.status = "Generation failed"])

\* AI_TOKEN_LIMITS.PROGRESS_DENOMINATOR
PROGRESS_DENOMINATOR == 60000

\* BrowserUI.handleStreamChunk, mutated: a document that is closed is displayed
\* whatever its length
handleStreamChunkAnyLength(u, chunk) ==
    LET m == chunk.metadata
        Progressed(parsed) ==
            IF m.tokensUsed # UndefinedNum /\ m.tokensUsed # 0
            THEN [parsed EXCEPT !.progress =
                        IF m.tokensUsed >= PROGRESS_DENOMINATOR THEN Rat(100, 1)
                        ELSE Rat(m.tokensUsed * 100, PROGRESS_DENOMINATOR)]
            ELSE parsed
        Counted(progressed) ==
            [progressed EXCEPT
                !.lastInputTokens = OrDefault(m.inputTokens, 0),
                !.lastOutputTokens = OrDefault(m.outputTokens, 0),
                !.lastResponseTime = OrDefault(m.responseTime, 0),
                !.lastTokenSpeed = m.tokenSpeed,
                !.totalSpeedMeasurements = IF m.tokenSpeed.num > 0 THEN @ + 1 ELSE @,
                !.cumulativeSpeed =
                    IF m.tokenSpeed.num > 0 THEN RatAdd(@, m.tokenSpeed) ELSE @]
        Averaged(counted) ==
            IF m.tokenSpeed.num > 0
            THEN [counted EXCEPT !.averageTokenSpeed =
                        Rat(counted.cumulativeSpeed.num,
                            counted.cumulativeSpeed.den * counted.totalSpeedMeasurements)]
            ELSE counted
        Shown(averaged) ==
            IF Includes(averaged.codeContent, "</html>")
            THEN displayContent(averaged, averaged.codeContent)
            ELSE averaged
        Done(content) ==
            IF chunk.done
            THEN finalizeGeneration([content EXCEPT !.progress = Rat(100, 1)])
            ELSE content
    IN  Done(IF chunk.content = "" THEN u
             ELSE Shown(Averaged(Counted(Progressed(
                    parseAndUpdateContent([u EXCEPT !.streamContent = @ \o chunk.content]))))))

\* BrowserUI.handleStreamChunk
handleStreamChunk(u, chunk) ==
    LET m == chunk.metadata
        Progressed(parsed) ==
            IF m.tokensUsed # UndefinedNum /\ m.tokensUsed # 0
            THEN [parsed EXCEPT !.progress =
                        IF m.tokensUsed >= PROGRESS_DENOMINATOR THEN Rat(100, 1)
                        ELSE Rat(m.tokensUsed * 100, PROGRESS_DENOMINATOR)]
            ELSE parsed
        Counted(progressed) ==
            [progressed EXCEPT
                !.lastInputTokens = OrDefault(m.inputTokens, 0),
                !.lastOutputTokens = OrDefault(m.outputTokens, 0),
                !.lastResponseTime = OrDefault(m.responseTime, 0),
                !.lastTokenSpeed = m.tokenSpeed,
                !.totalSpeedMeasurements = IF m.tokenSpeed.num > 0 THEN @ + 1 ELSE @,
                !.cumulativeSpeed =
                    IF m.tokenSpeed.num > 0 THEN RatAdd(@, m.tokenSpeed) ELSE @]
        Averaged(counted) ==
            IF m.tokenSpeed.num > 0
            THEN [counted EXCEPT !.averageTokenSpeed =
                        Rat(counted.cumulativeSpeed.num,
                            counted.cumulativeSpeed.den * counted.totalSpeedMeasurements)]
            ELSE counted
        Shown(averaged) ==
            IF Len(averaged.codeContent) > 100 /\ Includes(averaged.codeContent, "</html>")
            THEN displayContent(averaged, averaged.codeContent)
            ELSE averaged
        Done(content) ==
            IF chunk.done
            THEN finalizeGeneration([content EXCEPT !.progress = Rat(100, 1)])
            ELSE content
    IN  Done(IF chunk.content = "" THEN u
             ELSE Shown(Averaged(Counted(Progressed(
                    parseAndUpdateContent([u EXCEPT !.streamContent = @ \o chunk.content]))))))

\* the start of generateWebsite, mutated: the reasoning of the generation
\* before is kept
StartStreamingKeepThought(u) ==
    [u EXCEPT !.isStreaming = TRUE, !.streamContent = "", !.codeContent = "",
              !.lastInputTokens = 0, !.lastOutputTokens = 0, !.lastResponseTime = 0,
              !.lastTokenSpeed = RatZero, !.averageTokenSpeed = RatZero,
              !.totalSpeedMeasurements = 0, !.cumulativeSpeed = RatZero,
              !.status = "AI is thinking..."]

\* BrowserUI.generateWebsite up to its await: the fields are reset
StartStreaming(u) ==
    [u EXCEPT !.isStreaming = TRUE, !.streamContent = "", !.thoughtContent = "",
              !.codeContent = "",
              !.lastInputTokens = 0, !.lastOutputTokens = 0, !.lastResponseTime = 0,
              !.lastTokenSpeed = RatZero, !.averageTokenSpeed = RatZero,
              !.totalSpeedMeasurements = 0, !.cumulativeSpeed = RatZero,
              !.status = "AI is thinking..."]

\* BrowserUI.generateWebsite is called for the current url and sends its
\* stream request
UIGenerateWebsite ==
    /\ Len(ui.requests) < MaxNavs
    /\ ui' = [StartStreaming(ui) EXCEPT
                !.requests = Append(@, "streaming"),
                !.asked = Append(@, ui.currentUrl),
                !.last = "start"]
    /\ UNCHANGED <<cacheVars, keyVars, llmVars, streamVars, regVars>>

\* the callback of request r is called with a chunk
HandleStreamChunk(r, chunk) ==
    /\ r \in 1..Len(ui.requests)
    /\ ui.requests[r] = "streaming"
    /\ chunk.content # "" => ui.handled < MaxChunks
    /\ ui' = [handleStreamChunk(ui, chunk) EXCEPT
                !.requests[r] = IF chunk.done THEN "done" ELSE @,
                !.handled = IF chunk.content # "" THEN @ + 1 ELSE @,
                !.last = IF chunk.done THEN "done"
                         ELSE IF chunk.content # "" THEN "delta" ELSE @]
    /\ UNCHANGED <<cacheVars, keyVars, llmVars, streamVars, regVars>>

\* generateWebsite after its await, the stream request of r having resolved
Settled(u, r) ==
    LET Stopped(stopped, extractedHtml) ==
            IF u.codeContent # ""
            THEN [displayContent(stopped, u.codeContent) EXCEPT
                        !.status = "Content generated successfully"]
            ELSE IF extractedHtml # ""
            THEN [displayContent(stopped, extractedHtml) EXCEPT
                        !.status = "Content generated successfully"]
            ELSE [showError(stopped,
                            "Could not extract HTML content from AI response") EXCEPT
                        !.status = "Generation failed"]
    IN  Stopped([u EXCEPT !.isStreaming = FALSE, !.requests[r] = "settled",
                          !.last = "settled"],
                IF u.codeContent # "" THEN "" ELSE extractHTMLFromContent(u.streamContent))

\* the stream request of r resolves: generateWebsite goes on after its await
StreamSettles(r) ==
    /\ r \in 1..Len(ui.requests)
    /\ ui.requests[r] = "done"
    /\ ui' = Settled(ui, r)
    /\ UNCHANGED <<cacheVars, keyVars, llmVars, streamVars, regVars>>

\* the stream request of r rejects: the catch block of generateWebsite
StreamFails(r) ==
    /\ r \in 1..Len(ui.requests)
    /\ ui.requests[r] = "streaming"
    /\ ui' = [ui EXCEPT !.isStreaming = FALSE, !.requests[r] = "failed",
                        !.last = "failed"]
    /\ UNCHANGED <<cacheVars, keyVars, llmVars, streamVars, regVars>>

(***************************************************************************)
(* BrowserUI: navigation and its history                                   *)
(***************************************************************************)
\* the number of entries addToHistory keeps
MaxHistoryEntries == 100

\* BrowserUI.normalizeUrl, mutated: the address is taken as it is
normalizeUrlAsTyped(url) == url

\* BrowserUI.normalizeUrl
normalizeUrl(url) ==
    IF ~StartsWith(url, "http://") /\ ~StartsWith(url, "https://")
    THEN "https://" \o url
    ELSE url

\* BrowserUI.addToHistory, mutated: no entry is dropped
addToHistoryUnlimited(u, entry) ==
    LET Pushed(h) ==
            [u EXCEPT !.navigationHistory = h, !.currentHistoryIndex = Len(h) - 1]
    IN  Pushed(Append(IF u.currentHistoryIndex < Len(u.navigationHistory) - 1
                      THEN SubSeq(u.navigationHistory, 1, u.currentHistoryIndex + 1)
                      ELSE u.navigationHistory, entry))

\* BrowserUI.addToHistory, mutated: the index is not moved when the first
\* entry is shifted out
addToHistoryKeepIndex(u, entry) ==
    LET Pushed(h) ==
            IF Len(h) > MaxHistoryEntries
            THEN [u EXCEPT !.navigationHistory = Tail(h),
                           !.currentHistoryIndex = Len(h) - 1]
            ELSE [u EXCEPT !.navigationHistory = h,
                           !.currentHistoryIndex = Len(h) - 1]
    IN  Pushed(Append(IF u.currentHistoryIndex < Len(u.navigationHistory) - 1
                      THEN SubSeq(u.navigationHistory, 1, u.currentHistoryIndex + 1)
                      ELSE u.navigationHistory, entry))

\* BrowserUI.addToHistory: the entries after the current one are cut off, the
\* entry is pushed and becomes the current one, and the first entry is
\* shifted out of a history that has grown too long
addToHistory(u, entry) ==
    LET Pushed(h) ==
            IF Len(h) > MaxHistoryEntries
            THEN [u EXCEPT !.navigationHistory = Tail(h),
                           !.currentHistoryIndex = Len(h) - 2]
            ELSE [u EXCEPT !.navigationHistory = h,
                           !.currentHistoryIndex = Len(h) - 1]
    IN  Pushed(Append(IF u.currentHistoryIndex < Len(u.navigationHistory) - 1
                      THEN SubSeq(u.navigationHistory, 1, u.currentHistoryIndex + 1)
                      ELSE u.navigationHistory, entry))

\* BrowserUI.navigateToUrl up to the await of generateWebsite, mutated: a
\* blank address is navigated to as well
navigateToUrlBlank(u, url) ==
    LET Started(normalizedUrl) ==
            [StartStreaming(addToHistory(
                    updateUI([u EXCEPT !.currentUrl = normalizedUrl, !.isLoading = TRUE,
                                       !.error = Undefined]),
                    [url |-> normalizedUrl, title |-> extractDomain(normalizedUrl)]))
                EXCEPT !.requests = Append(@, "streaming"),
                       !.asked = Append(@, normalizedUrl),
                       !.last = "start"]
    IN  Started(normalizeUrl(url))

\* BrowserUI.navigateToUrl up to the await of generateWebsite: state, history
\* entry, and generateWebsite up to its stream request
navigateToUrl(u, url) ==
    LET Started(normalizedUrl) ==
            [StartStreaming(addToHistory(
                    updateUI([u EXCEPT !.currentUrl = normalizedUrl, !.isLoading = TRUE,
                                       !.error = Undefined]),
                    [url |-> normalizedUrl, title |-> extractDomain(normalizedUrl)]))
                EXCEPT !.requests = Append(@, "streaming"),
                       !.asked = Append(@, normalizedUrl),
                       !.last = "start"]
    IN  IF Trim(url) = "" THEN [u EXCEPT !.last = "ignored"]
        ELSE Started(normalizeUrl(url))

\* navigateToUrl is called, from the address bar or a link of the page
NavigateToUrl(url) ==
    /\ Trim(url) # "" => Len(ui.requests) < MaxNavs
    /\ ui' = navigateToUrl(ui, url)
    /\ UNCHANGED <<cacheVars, keyVars, llmVars, streamVars, regVars>>

\* BrowserUI.goBack: to the entry before the current one, and nothing when
\* there is none
GoBack ==
    /\ ui.currentHistoryIndex > 0 => Len(ui.requests) < MaxNavs
    /\ ui' = IF ui.currentHistoryIndex > 0
             THEN [navigateToUrl([ui EXCEPT !.currentHistoryIndex = @ - 1],
                                 ui.navigationHistory[ui.currentHistoryIndex].url)
                     EXCEPT !.last = "back"]
             ELSE [ui EXCEPT !.last = "stayed"]
    /\ UNCHANGED <<cacheVars, keyVars, llmVars, streamVars, regVars>>

\* BrowserUI.goForward: to the entry after the current one, and nothing when
\* there is none
GoForward ==
    /\ ui.currentHistoryIndex < Len(ui.navigationHistory) - 1
            => Len(ui.requests) < MaxNavs
    /\ ui' = IF ui.currentHistoryIndex < Len(ui.navigationHistory) - 1
             THEN [navigateToUrl([ui EXCEPT !.currentHistoryIndex = @ + 1],
                                 ui.navigationHistory[ui.currentHistoryIndex + 2].url)
                     EXCEPT !.last = "forward"]
             ELSE [ui EXCEPT !.last = "stayed"]
    /\ UNCHANGED <<cacheVars, keyVars, llmVars, streamVars, regVars>>

\* BrowserUI.refresh: the current address again, and nothing before the first
\* navigation
Refresh ==
    /\ ui.currentUrl # "" => Len(ui.requests) < MaxNavs
    /\ ui' = IF ui.currentUrl # ""
             THEN [navigateToUrl(ui, ui.currentUrl) EXCEPT !.last = "refresh"]
             ELSE [ui EXCEPT !.last = "stayed"]
    /\ UNCHANGED <<cacheVars, keyVars, llmVars, streamVars, regVars>>

\* BrowserUI.goHome
GoHome ==
    /\ Len(ui.requests) < MaxNavs
    /\ ui' = [navigateToUrl(ui, "google.com") EXCEPT !.last = "home"]
    /\ UNCHANGED <<cacheVars, keyVars, llmVars, streamVars, regVars>>

\* the stream request of navigation r resolves: generateWebsite goes on after
\* its await, and navigateToUrl after generateWebsite
NavigationSettles(r) ==
    /\ r \in 1..Len(ui.requests)
    /\ ui.requests[r] = "done"
    /\ ui' = updateUI([Settled(ui, r) EXCEPT !.isLoading = FALSE, !.status = "Ready"])
    /\ UNCHANGED <<cacheVars, keyVars, llmVars, streamVars, regVars>>

\* the stream request of navigation r rejects with an Error: the catch block
\* of generateWebsite, then the one of navigateToUrl
NavigationFails(r, message) ==
    /\ r \in 1..Len(ui.requests)
    /\ ui.requests[r] = "streaming"
    /\ ui' = updateUI(showError([ui EXCEPT !.isStreaming = FALSE,
                                           !.requests[r] = "failed",
                                           !.last = "failed", !.isLoading = FALSE,
                                           !.error = message,
                                           !.status = "Error: " \o message],
                                message))
    /\ UNCHANGED <<cacheVars, keyVars, llmVars, streamVars, regVars>>

(***************************************************************************)
(* Initial states                                                          *)
(*                                                                         *)
(* A behaviour starts from a cache that earlier generateWebsite calls for  *)
(* the urls site1, site2, ... have filled in that order; the size 0 is the *)
(* cache after construction.  Entry i of n carries the ghost stamp i - n,  *)
(* so the entries added later are stamped 1, 2, ...                        *)
(***************************************************************************)
PrefillSizes == {0, MAX_CACHE_SIZE}

PrefillUrl(i) == "https://site" \o ToString(i) \o ".com"

PrefillKey(i, provider) == generateCacheKey(PrefillUrl(i), provider, <<>>)

Prefill(n, provider) ==
    [i \in 1..n |->
        [key |-> PrefillKey(i, provider),
         value |-> AIResponse("<html>" \o ToString(i) \o "</html>", provider,
                              DefaultModel(provider), 0, UndefinedNum, 0),
         at |-> i - n]]

AllKeysSet ==
    [OPENAI_API_KEY |-> "sk-o", ANTHROPIC_API_KEY |-> "sk-a", GOOGLE_API_KEY |-> "sk-g"]

LLMIdle ==
    /\ providers = initializeProviders(AllKeysSet)
    /\ slots = [i \in 1..MaxReqs |-> IdleSlot]
    /\ ret = NoRet

(***************************************************************************)
(* SpecCache: the methods of CacheService, called directly                 *)
(***************************************************************************)
\* a call of a CacheService method: the Map's size and whether the key was held
\* when it was made, and the keys the call removed
Call(op, key, size, held, removed) ==
    [op |-> op, key |-> key, size |-> size, held |-> held, removed |-> removed]

NoCall == Call("none", "", 0, FALSE, {})

\* of the call before the last one only the method and the key are kept
Record(c) == calls' = <<Call(calls[2].op, calls[2].key, 0, FALSE, {}), c>>

\* the keys and responses the calls are made with
ProbeKeys ==
    {PrefillKey(1, "openai"),
     generateCacheKey("https://a.com", "openai", <<>>),
     generateCacheKey("b.org/x", "openai", <<>>)}

ProbeResponses ==
    {AIResponse("<html>A</html>", "openai", "gpt-4o", 1000, 55, 250),
     AIResponse("B", "openai", "gpt-4o", 2000, UndefinedNum, 0)}

CacheInit ==
    /\ \E n \in PrefillSizes : cache = Prefill(n, "openai")
    /\ tick = 0
    /\ calls = <<NoCall, NoCall>>
    /\ KeyIdle
    /\ LLMIdle
    /\ StreamIdle
    /\ RegIdle
    /\ UIIdle

\* CacheService.get
Get(k) ==
    /\ Record(Call("get", k, Len(cache), MapHas(cache, k), {}))
    /\ UNCHANGED <<cache, tick, keyVars, llmVars, streamVars, regVars, uiVars>>

\* CacheService.has
Has(k) ==
    /\ Record(Call("has", k, Len(cache), MapHas(cache, k), {}))
    /\ UNCHANGED <<cache, tick, keyVars, llmVars, streamVars, regVars, uiVars>>

\* CacheService.set
Set(k, v) ==
    /\ tick < MaxInserts
    /\ cache' = CacheSet(cache, k, v, tick + 1)
    /\ tick' = tick + 1
    /\ Record(Call("set", k, Len(cache), MapHas(cache, k), Held(cache) \ Held(cache')))
    /\ UNCHANGED <<keyVars, llmVars, streamVars, regVars, uiVars>>

\* CacheService.delete
Delete(k) ==
    /\ cache' = MapDelete(cache, k)
    /\ Record(Call("delete", k, Len(cache), MapHas(cache, k), Held(cache) \ Held(cache')))
    /\ UNCHANGED <<tick, keyVars, llmVars, streamVars, regVars, uiVars>>

\* CacheService.clear
Clear ==
    /\ cache' = <<>>
    /\ Record(Call("clear", "", Len(cache), FALSE, Held(cache)))
    /\ UNCHANGED <<tick, keyVars, llmVars, streamVars, regVars, uiVars>>

CacheNext ==
    \/ \E k \in ProbeKeys : Get(k)
    \/ \E k \in ProbeKeys : Has(k)
    \/ \E k \in ProbeKeys, v \in ProbeResponses : Set(k, v)
    \/ \E k \in ProbeKeys : Delete(k)
    \/ Clear

SpecCache == CacheInit /\ [][CacheNext]_vars

(***************************************************************************)
(* SpecKey: generateCacheKey as a function of its arguments                *)
(***************************************************************************)
KeySpecInit ==
    /\ KeyInit
    /\ cache = <<>>
    /\ tick = 0
    /\ calls = <<NoCall, NoCall>>
    /\ LLMIdle
    /\ StreamIdle
    /\ RegIdle
    /\ UIIdle

KeyNext == ComputeKeys

SpecKey == KeySpecInit /\ [][KeyNext]_vars

(***************************************************************************)
(* SpecKeyPairs: generateCacheKey for the arguments of two generateWebsite *)
(* requests, which may differ in url, provider and options.  The provider  *)
(* is the string the request carries: generateWebsite computes the key and *)
(* looks it up before it validates the provider.                           *)
(***************************************************************************)
RequestArgs ==
    [url : {"https://a.com", "https"}, provider : {"openai", "//a.com:openai"},
     options : {<<>>, <<[name |-> "temperature", value |-> 0]>>,
                <<[name |-> "temperature", value |-> 7]>>}]

KeyPairsInit ==
    /\ keyIn \in RequestArgs \X RequestArgs
    /\ keyOut = <<>>
    /\ cache = <<>>
    /\ tick = 0
    /\ calls = <<NoCall, NoCall>>
    /\ LLMIdle
    /\ StreamIdle
    /\ RegIdle
    /\ UIIdle

SpecKeyPairs == KeyPairsInit /\ [][KeyNext]_vars

(***************************************************************************)
(* SpecStream: one streamWebsite generator, driven to its end.  The cache  *)
(* is empty or holds the response an earlier generateWebsite call for the  *)
(* same url, provider and options has stored.                              *)
(***************************************************************************)
\* what can be thrown: an Error with a message, or a value that is no Error
Thrown == {[isError |-> TRUE, message |-> "boom"], [isError |-> FALSE, message |-> ""]}

\* text fragments of 0, 1 and 2 estimated tokens
Texts == {"", "<p>", "<html>"}

TimeSteps == {0, 400}

\* totalUsage of the finish part: absent, complete, the total alone, and a
\* count of 0
Usages ==
    {NoUsage, Usage(12, 43, 55), Usage(UndefinedNum, UndefinedNum, 55),
     Usage(12, 0, 12)}

Parts ==
    {TextDelta(t) : t \in Texts} \cup {Finish(u) : u \in Usages}
        \cup {ErrorPart, OtherPart}

StreamEnvironments ==
    {e \in Environments :
        \/ e.OPENAI_API_KEY = "" /\ e.ANTHROPIC_API_KEY = ""
        \/ e.OPENAI_API_KEY # "" /\ e.ANTHROPIC_API_KEY # "" /\ e.GOOGLE_API_KEY # ""}

StreamRequests ==
    [url : {PrefillUrl(1)}, provider : {Undefined, "openai", "mistral"},
     options : {<<>>}]

StreamInit ==
    /\ \E e \in StreamEnvironments :
          /\ providers = initializeProviders(e)
          /\ \E n \in {0, 1} :
                /\ n > 0 => Len(providers) > 0
                /\ cache = IF n > 0
                           THEN Prefill(n, getDefaultProvider(providers).id)
                           ELSE <<>>
    /\ slots = [i \in 1..MaxReqs |-> IdleSlot]
    /\ ret = NoRet
    /\ tick = 0
    /\ calls = <<NoCall, NoCall>>
    /\ KeyIdle
    /\ StreamIdle
    /\ RegIdle
    /\ UIIdle

StreamNext ==
    \/ \E r \in StreamRequests : StreamWebsite(r)
    \/ \E p \in Parts, dt \in TimeSteps : gen.fullRead + gen.textRead < MaxEvents /\ FullStreamPart(p, dt)
    \/ FullStreamEnds
    \/ FullStreamRaises
    \/ \E t \in Texts, dt \in TimeSteps : gen.fullRead + gen.textRead < MaxEvents /\ TextStreamPart(t, dt)
    \/ TextStreamEnds
    \/ \E x \in Thrown : TextStreamRaises(x)
    \/ Abandon

SpecStream == StreamInit /\ [][StreamNext]_vars

(***************************************************************************)
(* SpecPulled: one streamWebsite generator whose consumer is the handler   *)
(* of the stream-website channel: its `for await` loop pulls until the     *)
(* generator returns or throws.  The provider's streams are finite: they   *)
(* deliver at most MaxEvents items and then end or throw.                  *)
(***************************************************************************)
PulledInit ==
    /\ providers = initializeProviders(AllKeysSet)
    /\ cache = <<>>
    /\ slots = [i \in 1..MaxReqs |-> IdleSlot]
    /\ ret = NoRet
    /\ tick = 0
    /\ calls = <<NoCall, NoCall>>
    /\ KeyIdle
    /\ StreamIdle
    /\ RegIdle
    /\ UIIdle

PulledNext ==
    \/ \E r \in StreamRequests : StreamWebsite(r)
    \/ \E p \in Parts, dt \in TimeSteps : gen.fullRead + gen.textRead < MaxEvents /\ FullStreamPart(p, dt)
    \/ FullStreamEnds
    \/ FullStreamRaises
    \/ \E t \in Texts, dt \in TimeSteps : gen.fullRead + gen.textRead < MaxEvents /\ TextStreamPart(t, dt)
    \/ TextStreamEnds
    \/ \E x \in Thrown : TextStreamRaises(x)

SpecPulled == PulledInit /\ [][PulledNext]_vars /\ WF_vars(PulledNext)

(***************************************************************************)
(* SpecRegistry: a ProviderService constructed in any environment, and     *)
(* calls of its methods                                                    *)
(***************************************************************************)
\* the ids the methods are called with
ProbeIds == {"openai", "anthropic", "google", "mistral", ""}

RegistryInit ==
    /\ \E e \in Environments :
          /\ providers = initializeProviders(e)
          /\ reg = [env |-> e, call |-> NoRegCall]
    /\ cache = <<>>
    /\ slots = [i \in 1..MaxReqs |-> IdleSlot]
    /\ ret = NoRet
    /\ tick = 0
    /\ calls = <<NoCall, NoCall>>
    /\ KeyIdle
    /\ StreamIdle
    /\ UIIdle

RegistryNext ==
    \/ GetProviders
    \/ \E id \in ProbeIds : GetProvider(id)
    \/ GetDefaultProvider
    \/ HasProviders
    \/ \E id \in ProbeIds : ValidateProvider(id)

SpecRegistry == RegistryInit /\ [][RegistryNext]_vars

(***************************************************************************)
(* SpecLLM: generateWebsite calls on LLMService, its cache and its registry *)
(***************************************************************************)
LLMEnvironments == StreamEnvironments

LLMRequests ==
    [url : Urls, provider : {Undefined, "openai", "mistral"},
     options : {<<>>}]

\* what generateText resolves with: the text and usage.totalTokens
Results == {<<"<html>A</html>", 55>>, <<"B", UndefinedNum>>}

\* the readings of Date.now() behind timestamp and responseTime
Timestamps == {1000}
ResponseTimes == {250}

LLMInit ==
    /\ \E e \in LLMEnvironments :
          /\ providers = initializeProviders(e)
          /\ \E n \in PrefillSizes :
                /\ n > 0 => Len(providers) > 0
                /\ cache = IF n > 0
                           THEN Prefill(n, getDefaultProvider(providers).id)
                           ELSE <<>>
    /\ slots = [i \in 1..MaxReqs |-> IdleSlot]
    /\ ret = NoRet
    /\ tick = 0
    /\ calls = <<NoCall, NoCall>>
    /\ KeyIdle
    /\ StreamIdle
    /\ RegIdle
    /\ UIIdle

LLMNext ==
    \/ \E i \in 1..MaxReqs, r \in LLMRequests : GenerateWebsite(i, r)
    \/ \E i \in 1..MaxReqs, r \in Results, t \in Timestamps, d \in ResponseTimes :
            GenerateTextResolves(i, r[1], r[2], t, d)
    \/ \E i \in 1..MaxReqs, x \in Thrown : GenerateTextRejects(i, x)
    \/ ClearCache

SpecLLM == LLMInit /\ [][LLMNext]_vars

(***************************************************************************)
(* SpecService: LLMService with both of its entry points.  A behaviour is  *)
(* a series of generateWebsite calls or one streamWebsite run: the two     *)
(* share the registry, which neither writes, and the cache, which          *)
(* streamWebsite does not touch.                                           *)
(***************************************************************************)
LLMQuiet == ret = NoRet /\ \A i \in 1..MaxReqs : slots[i] = IdleSlot

ServiceNext ==
    \/ /\ StreamIdle
       /\ \/ \E i \in 1..MaxReqs, r \in StreamRequests : GenerateWebsite(i, r)
          \/ \E i \in 1..MaxReqs, r \in Results, t \in Timestamps, d \in ResponseTimes :
                  GenerateTextResolves(i, r[1], r[2], t, d)
          \/ \E i \in 1..MaxReqs, x \in Thrown : GenerateTextRejects(i, x)
    \/ /\ LLMQuiet
       /\ StreamNext

SpecService == StreamInit /\ [][ServiceNext]_vars

(***************************************************************************)
(* SpecOptions: generateWebsite with and without a temperature in the      *)
(* options of the request; temperatures are written in tenths              *)
(***************************************************************************)
OptionRequests ==
    [url : {"https://a.com"}, provider : {Undefined, "openai"},
     options : {<<>>, <<[name |-> "temperature", value |-> 0]>>,
                <<[name |-> "temperature", value |-> 3]>>}]

OptionsNext ==
    \/ \E i \in 1..MaxReqs, r \in OptionRequests : GenerateWebsite(i, r)
    \/ \E i \in 1..MaxReqs, r \in Results, t \in Timestamps, d \in ResponseTimes :
            GenerateTextResolves(i, r[1], r[2], t, d)
    \/ \E i \in 1..MaxReqs, x \in Thrown : GenerateTextRejects(i, x)
    \/ ClearCache

\* every provider is registered and the cache is empty
OptionsInit ==
    /\ providers = initializeProviders(AllKeysSet)
    /\ cache = <<>>
    /\ slots = [i \in 1..MaxReqs |-> IdleSlot]
    /\ ret = NoRet
    /\ tick = 0
    /\ calls = <<NoCall, NoCall>>
    /\ KeyIdle
    /\ StreamIdle
    /\ RegIdle
    /\ UIIdle

SpecOptions == OptionsInit /\ [][OptionsNext]_vars

(***************************************************************************)
(* SpecUI: BrowserUI generates pages; its stream callback receives the     *)
(* chunks of the main process and extracts the document and the reasoning  *)
(***************************************************************************)

\* fragments of model output, as chunk.content of the chunks received
UIDeltas ==
    {"<thinking> X </thinking>", "<html><body><p>hi", "<code> <p>A</p></code>",
     "~~~html\n<html><body>\n~~~", "</body>\n</html>"}

\* the chunks StreamingService.streamWebsite yields, as the callback sees them
UIChunks ==
    {Chunk(d, FALSE, 30, 17, 13, 400, Rat(5, 2)) : d \in UIDeltas}
        \cup {Chunk("", TRUE, 30, 17, 13, 450, Rat(5, 2))}

UIInit ==
    /\ providers = initializeProviders(NoKeysSet)
    /\ cache = <<>>
    /\ slots = [i \in 1..MaxReqs |-> IdleSlot]
    /\ ret = NoRet
    /\ tick = 0
    /\ calls = <<NoCall, NoCall>>
    /\ KeyIdle
    /\ StreamIdle
    /\ RegIdle
    /\ UIIdle

UINext ==
    \/ UIGenerateWebsite
    \/ \E r \in 1..MaxNavs, chunk \in UIChunks : HandleStreamChunk(r, chunk)
    \/ \E r \in 1..MaxNavs : StreamSettles(r)
    \/ \E r \in 1..MaxNavs : StreamFails(r)

SpecUI == UIInit /\ [][UINext]_vars

(***************************************************************************)
(* SpecNav: the user navigates, by address, back, forward, refresh and     *)
(* home, while the stream requests of earlier navigations are still on     *)
(* their way.  A behaviour starts after n navigations to site1 .. siten,   *)
(* each of which failed at once.                                           *)
(***************************************************************************)
\* the message a stream request rejects with
StreamFailure == "AI Service Error"

\* BrowserUI after navigateToUrl was called for site1 .. siten in turn, each
\* stream request having rejected before the next call; the ghosts count
\* from there on
Visited(n) ==
    IF n = 0 THEN IdleUI
    ELSE [IdleUI EXCEPT
            !.currentUrl = PrefillUrl(n), !.error = StreamFailure,
            !.errorShown = StreamFailure, !.status = "Error: " \o StreamFailure,
            !.navigationHistory =
                [i \in 1..n |-> [url |-> PrefillUrl(i),
                                 title |-> extractDomain(PrefillUrl(i))]],
            !.currentHistoryIndex = n - 1]

\* what the user types into the address bar
NavUrls == {"", "  ", "a.com", "http://b.com/x"}

NavInit ==
    /\ providers = initializeProviders(NoKeysSet)
    /\ cache = <<>>
    /\ slots = [i \in 1..MaxReqs |-> IdleSlot]
    /\ ret = NoRet
    /\ tick = 0
    /\ calls = <<NoCall, NoCall>>
    /\ KeyIdle
    /\ StreamIdle
    /\ RegIdle
    /\ \E n \in {0, 2, MaxHistoryEntries - 1, MaxHistoryEntries} : ui = Visited(n)

NavNext ==
    \/ \E url \in NavUrls : NavigateToUrl(url)
    \/ GoBack
    \/ GoForward
    \/ Refresh
    \/ GoHome
    \/ \E r \in 1..MaxNavs :
            HandleStreamChunk(r, Chunk("", TRUE, 30, 17, 13, 450, Rat(5, 2)))
    \/ \E r \in 1..MaxNavs : NavigationSettles(r)
    \/ \E r \in 1..MaxNavs : NavigationFails(r, StreamFailure)

SpecNav == NavInit /\ [][NavNext]_vars

(***************************************************************************)
(* SpecDisplay: pages long enough to be displayed while they stream, and   *)
(* navigations that overlap                                                *)
(***************************************************************************)
\* the chunks of the stream: a whole page in a <code> region, the start of a
\* page, a page end, and the final chunk
DisplayChunks ==
    {Chunk(d, FALSE, 30, 17, 13, 400, Rat(5, 2)) :
        d \in {"<code><html><head><title>T</title></head><body><script>x()</script><img src=\"http://e/i.png\"><a href=\"/p\">L</a></body></html></code>",
               "<html><body><p>hi",
               "</body></html>"}}
        \cup {Chunk("", TRUE, 30, 17, 13, 450, Rat(5, 2))}

DisplayNext ==
    \/ NavigateToUrl("a.com")
    \/ \E r \in 1..MaxNavs, chunk \in DisplayChunks : HandleStreamChunk(r, chunk)
    \/ \E r \in 1..MaxNavs : NavigationSettles(r)
    \/ \E r \in 1..MaxNavs : NavigationFails(r, StreamFailure)

SpecDisplay == UIInit /\ [][DisplayNext]_vars

(***************************************************************************)
(* Claims about the cache                                                  *)
(***************************************************************************)
\* the last direct call, seen from the step that makes it
LastCall == calls'[2]

\* the held entry that was added earliest: the one with the least stamp
EarliestKey(m) ==
    m[CHOOSE i \in 1..Len(m) : \A j \in 1..Len(m) : m[i].at <= m[j].at].key

C1Step ==
    /\ (tick' # tick /\ LastCall.op = "set" /\ Len(cache) = MAX_CACHE_SIZE
            /\ ~MapHas(cache, LastCall.key))
        => /\ Held(cache) \ Held(cache') = {EarliestKey(cache)}
           /\ Cardinality(Held(cache) \ Held(cache')) = 1
           /\ LastCall.removed = {EarliestKey(cache)}
    /\ (calls' # calls /\ LastCall.op \in {"get", "has"})
        => /\ cache' = cache
           /\ MapFirstKey(cache') = MapFirstKey(cache)

C2_Capacity ==
    /\ Cardinality(Held(cache)) <= 100
    /\ getStats(cache).size = Cardinality(Held(cache))
    /\ getStats(cache).maxSize = 100

\* C2 witness: a set made at capacity has left the cache at capacity.
C2_Witness ==
    /\ calls[2].op = "set"
    /\ calls[2].size = 100
    /\ getStats(cache).size = 100

\* C3: two options objects with the same property/value pairs, in whatever
\* order, give the same key for the same url and provider.
C3_OrderInsensitive ==
    (keyOut # <<>> /\ PropsOf(keyIn[1].options) = PropsOf(keyIn[2].options))
        => keyOut[1] = keyOut[2]

(***************************************************************************)
(* Claims about generateWebsite                                            *)
(***************************************************************************)
\* slot i makes a call that ends without suspending
EndsAtOnce(i) == slots[i].pc = "idle" /\ ret' # ret /\ ret'.slot = i

\* the call suspended in slot i ends
Settles(i) == slots[i].pc = "invoking" /\ slots'[i].pc = "idle" /\ ret'.slot = i

C4Step ==
    \A i \in 1..MaxReqs :
        /\ (EndsAtOnce(i) /\ MapHas(cache, ret'.cacheKey))
            => /\ ret'.status = "returned"
               /\ ret'.response = MapGet(cache, ret'.cacheKey)
               /\ ret'.backendCalls = 0
               /\ cache' = cache
        /\ (slots[i].pc = "idle" /\ slots'[i].pc = "invoking")
            => ~MapHas(cache, slots'[i].cacheKey)

\* C4: a generateWebsite call whose key is held by the cache returns the cached
\* response, makes no backend call and leaves the cache (its keys, values and
\* order) unchanged; the backend is called only for a key that is not held.
C4_HitReturnsCached == [][C4Step]_vars

\* C4 witness: the last call was served from a cache that holds 100 entries.
C4_Witness ==
    /\ ret.status = "returned"
    /\ ret.hit
    /\ ret.backendCalls = 0
    /\ Len(cache) = MAX_CACHE_SIZE
    /\ MapHas(cache, ret.cacheKey)
    /\ ret.response = MapGet(cache, ret.cacheKey)

C5Step ==
    \A i \in 1..MaxReqs :
        /\ (Settles(i) /\ ret'.status = "returned")
            => /\ MapHas(cache', slots[i].cacheKey)
               /\ MapGet(cache', slots[i].cacheKey) = ret'.response
               /\ ret'.cacheKey = slots[i].cacheKey
        /\ \A r \in LLMRequests :
              (/\ EndsAtOnce(i)
               /\ r.provider # Undefined
               /\ ret'.cacheKey = generateCacheKey(r.url, r.provider, r.options)
               /\ MapHas(cache, generateCacheKey(r.url, r.provider, r.options)))
                => /\ ret'.status = "returned"
                   /\ ret'.backendCalls = 0
                   /\ ret'.response =
                        MapGet(cache, generateCacheKey(r.url, r.provider, r.options))

\* C5: when generateWebsite succeeds on a miss, the cache holds the returned
\* response under the request's key; a later call with the same url, provider
\* and options, made while the entry is held, returns the held response and
\* makes no backend call.
C5_StoredThenServed == [][C5Step]_vars

\* C5 witness: a call is served the response that an earlier call of this
\* behaviour generated and stored.
C5_Witness ==
    /\ ret.status = "returned"
    /\ ret.hit
    /\ ret.backendCalls = 0
    /\ ret.response.content \in {r[1] : r \in Results}
    /\ MapGet(cache, ret.cacheKey) = ret.response

C6Step ==
    \A i \in 1..MaxReqs :
        (Settles(i) /\ ret'.status = "failed")
            => /\ ret'.error.code = "CONTENT_GENERATION_FAILED"
               /\ ret'.error.provider = slots[i].provider
               /\ ret'.cause.isError
                    => ret'.error.message
                         = "Failed to generate content: " \o ret'.cause.message
               /\ ret'.backendCalls = 1
               /\ cache' = cache

\* C6: when the backend call of generateWebsite fails, the call fails with an
\* AIError of code CONTENT_GENERATION_FAILED that carries the provider id of the
\* request and the message of the error that was thrown, and the cache is left
\* unchanged.
C6_FailureWrapped == [][C6Step]_vars

\* C6 witness: a backend call has failed with an Error while the cache was full.
C6_Witness ==
    /\ ret.status = "failed"
    /\ ret.backendCalls = 1
    /\ ret.cause = [isError |-> TRUE, message |-> "boom"]
    /\ ret.error = AIError("Failed to generate content: boom",
                           "CONTENT_GENERATION_FAILED", "openai")
    /\ Len(cache) = MAX_CACHE_SIZE

(***************************************************************************)
(* Claims about streamWebsite                                              *)
(***************************************************************************)
C7Step ==
    /\ streamVars' # streamVars => cache' = cache
    /\ (st.pc = "idle" /\ st'.pc # "idle" /\ hasProviders(providers)
            /\ validateProvider(providers, st'.provider).ok)
        => /\ st'.pc = "full"
           /\ gen'.streamTextCalls = 1
           /\ st'.args.fn = "streamText"

\* C7: no step of streamWebsite changes the cache, whether the stream ends,
\* fails or is abandoned, and a stream request with a valid provider calls the
\* backend whether or not the cache holds its key.
C7_StreamBypassesCache == [][C7Step]_vars

\* C7 witness: a stream whose key is cached has called the backend and ended.
C7_Witness ==
    /\ st.pc = "ended"
    /\ gen.streamTextCalls = 1
    /\ MapHas(cache, generateCacheKey(st.url, st.provider, st.options))
    /\ Len(yielded) > 1

\* the positions of the yielded chunks with done = true
DoneChunks == {i \in 1..Len(yielded) : yielded[i].done}

\* C8: a chunk with done = true is only ever the last chunk of a run that has
\* ended; a run that has ended has yielded exactly one, with empty content,
\* after chunks with done = false only; a run that received no text ends with
\* the final chunk alone and no error.
C8_OneFinalChunk ==
    /\ \A i \in DoneChunks : i = Len(yielded) /\ st.pc = "ended"
    /\ st.pc = "ended"
        => /\ DoneChunks = {Len(yielded)}
           /\ Len(yielded) >= 1
           /\ yielded[Len(yielded)].content = ""
           /\ \A i \in 1..(Len(yielded) - 1) :
                 ~yielded[i].done /\ yielded[i].content # ""
           /\ st.error = NoError
           /\ ~st.hasReceivedContent => Len(yielded) = 1

\* C8 witness: the provider's stream has ended after empty fragments only, and
\* the run has yielded the final chunk alone.
C8_Witness ==
    /\ st.pc = "ended"
    /\ ~st.hasReceivedContent
    /\ gen.fullRead > 0
    /\ Len(yielded) = 1
    /\ yielded[1].done

\* C9: once fullStream has delivered an error part, no further chunk is
\* yielded, textStream is not read, the run does not end with a final chunk,
\* and it fails with CONTENT_GENERATION_FAILED.
C9_ErrorPartAborts ==
    gen.fullFailure = "error-part"
        => /\ Len(yielded) = gen.yieldedAtFailure
           /\ gen.textRead = 0
           /\ DoneChunks = {}
           /\ st.pc # "ended"
           /\ st.pc = "failed" => st.error.code = "CONTENT_GENERATION_FAILED"

\* C10: textStream is read only when the reading of fullStream failed before
\* any content chunk was yielded.
C10_FallbackOnlyBeforeContent ==
    gen.yieldedAtFailure > 0 => gen.textRead = 0

(***************************************************************************)
(* Claims about the provider registry                                      *)
(***************************************************************************)
\* the credential of a backend in an environment
Credential(env, id) ==
    CASE id = "openai" -> env.OPENAI_API_KEY
      [] id = "anthropic" -> env.ANTHROPIC_API_KEY
      [] id = "google" -> env.GOOGLE_API_KEY

\* the backends whose credential is present, in the order openai, anthropic,
\* google
Registered(env) ==
    SelectSeq(<<"openai", "anthropic", "google">>, LAMBDA id : Credential(env, id) # "")

InSeq(x, q) == \E i \in 1..Len(q) : q[i] = x

\* C17: the registry holds exactly the providers whose credential is present,
\* in the order openai, anthropic, google; getDefaultProvider returns the first
\* of them and fails with 'No providers available' when there is none;
\* validateProvider of an id the registry does not hold fails with
\* 'Provider <id> not found', and of an id it holds returns that provider.
C17_RegistryOrder ==
    LET expected == Registered(reg.env)
        c == reg.call
    IN  /\ [i \in 1..Len(providers) |-> providers[i].key] = expected
        /\ \A i \in 1..Len(providers) : providers[i].value.id = providers[i].key
        /\ c.op = "getProviders" => c.ids = expected
        /\ c.op = "getDefaultProvider" =>
              IF expected = <<>>
              THEN /\ ~c.ok
                   /\ c.error.message = "No providers available"
                   /\ c.error.code = "API_KEY_MISSING"
              ELSE c.ok /\ c.id = expected[1]
        /\ c.op = "validateProvider" =>
              IF InSeq(c.arg, expected)
              THEN c.ok /\ c.id = c.arg
              ELSE /\ ~c.ok
                   /\ c.error.message = "Provider " \o c.arg \o " not found"
                   /\ c.error.code = "AI_PROVIDER_ERROR"
                   /\ c.error.code # getDefaultProvider(<<>>).error.code

\* C17 witness: with the Google credential alone, getDefaultProvider has
\* returned 'google'.
C17_Witness ==
    /\ reg.env = [OPENAI_API_KEY |-> "", ANTHROPIC_API_KEY |-> "", GOOGLE_API_KEY |-> "sk-g"]
    /\ reg.call.op = "getDefaultProvider"
    /\ reg.call.ok
    /\ reg.call.id = "google"

(***************************************************************************)
(* Claims about the chunks, the token counts and the speeds of a stream    *)
(***************************************************************************)
\* the chunks yielded before the final one
ContentChunks == SelectSeq(yielded, LAMBDA c : ~c.done)

\* the non-empty text fragments the generator has read from either stream
NonEmptyConsumed == SelectSeq(gen.consumed, LAMBDA t : t # "")

C12_NoRetry ==
    /\ \A i \in 1..MaxReqs :
          /\ slots[i].backendCalls <= 1
          /\ slots[i].pc = "invoking" <=> slots[i].backendCalls = 1
    /\ ret.backendCalls <= 1
    /\ ret.hit => ret.backendCalls = 0
    /\ (ret.status # "none" /\ ret.cause # NoThrown) => ret.backendCalls = 1
    /\ gen.streamTextCalls <= 1
    /\ (st.pc # "idle" /\ hasProviders(providers)
            /\ validateProvider(providers, st.provider).ok)
        => gen.streamTextCalls = 1
    /\ gen.fullFailure # "" => gen.streamTextCalls = 1
    /\ (st.pc = "failed" /\ gen.fullFailure = "") => gen.streamTextCalls = 0

\* C12 witness: a run that fell back to textStream has read from it and ended,
\* with one streamText call.
C12_Witness ==
    /\ st.pc = "ended"
    /\ gen.fullFailure # ""
    /\ gen.textRead > 0
    /\ gen.streamTextCalls = 1

\* the least n with 4 * n >= len
Tokens(len) == CHOOSE n \in 0..len : 4 * n >= len /\ 4 * (n - 1) < len

RECURSIVE SumTokens(_)
SumTokens(q) == IF q = <<>> THEN 0 ELSE Tokens(Len(Head(q))) + SumTokens(Tail(q))

\* C13: while no usage totals were read, every chunk reports the input tokens
\* as ceil(prompt length / 4), and the k-th content chunk reports the output
\* tokens as the sum of ceil(length / 4) over the first k non-empty fragments.
C13_TokenEstimates ==
    /\ \A k \in 1..Len(ContentChunks) :
          /\ ContentChunks[k].metadata.inputTokens = Tokens(Len(st.prompt))
          /\ ContentChunks[k].metadata.outputTokens =
                SumTokens(SubSeq(NonEmptyConsumed, 1, k))
    /\ (st.pc = "ended" /\ ~gen.usage.present) =>
          /\ yielded[Len(yielded)].metadata.inputTokens = Tokens(Len(st.prompt))
          /\ yielded[Len(yielded)].metadata.outputTokens = SumTokens(NonEmptyConsumed)

\* C13 witness: fragments of 3, 6 and 0 characters were read without usage
\* totals; the chunks report 1 and then 3 output tokens.
C13_Witness ==
    /\ st.pc = "ended"
    /\ ~gen.usage.present
    /\ gen.consumed = <<"<p>", "<html>", "">>
    /\ yielded[1].metadata.outputTokens = 1
    /\ yielded[2].metadata.outputTokens = 3
    /\ yielded[3].metadata.outputTokens = 3

\* C14: when the finish part carried usage totals, the final chunk reports
\* every count the totals give.
C14_UsageOverrides ==
    (st.pc = "ended" /\ gen.usage.present) =>
        LET m == yielded[Len(yielded)].metadata
            u == gen.usage
        IN  /\ u.inputTokens # UndefinedNum => m.inputTokens = u.inputTokens
            /\ u.outputTokens # UndefinedNum => m.outputTokens = u.outputTokens
            /\ u.totalTokens # UndefinedNum => m.tokensUsed = u.totalTokens

\* the sum of the speeds of the chunks q that are above 0, and their number
RECURSIVE SumSpeeds(_)
SumSpeeds(q) ==
    IF q = <<>> THEN RatZero
    ELSE IF Head(q).metadata.tokenSpeed.num > 0
    THEN RatAdd(Head(q).metadata.tokenSpeed, SumSpeeds(Tail(q)))
    ELSE SumSpeeds(Tail(q))

PositiveSpeeds == Len(SelectSeq(ContentChunks, LAMBDA c : c.metadata.tokenSpeed.num > 0))

\* C15: a content chunk reports the tokens of its fragment divided by the
\* seconds since the content chunk before it (since the start for the first;
\* 0 when no time has passed), and the final chunk reports the mean of the
\* speeds above 0 of the content chunks, 0 when there is none.
C15_TokenSpeed ==
    /\ \A k \in 1..Len(ContentChunks) :
          LET c == ContentChunks[k]
              since == IF k = 1 THEN 0 ELSE ContentChunks[k - 1].metadata.responseTime
              ms == c.metadata.responseTime - since
              tokens == Tokens(Len(c.content))
          IN  IF ms > 0
              THEN c.metadata.tokenSpeed.num * ms
                      = tokens * 1000 * c.metadata.tokenSpeed.den
              ELSE c.metadata.tokenSpeed = RatZero
    /\ st.pc = "ended" =>
          LET f == yielded[Len(yielded)].metadata.tokenSpeed
              sum == SumSpeeds(ContentChunks)
          IN  IF PositiveSpeeds = 0 THEN f = RatZero
              ELSE f.num * sum.den * PositiveSpeeds = sum.num * f.den

\* C15 witness: two content chunks with the speeds 5/2 and 5 tokens per second
\* and an empty fragment; the final chunk reports 15/4.
C15_Witness ==
    /\ st.pc = "ended"
    /\ Len(yielded) = 3
    /\ Len(gen.consumed) = 3
    /\ yielded[1].metadata.tokenSpeed = [num |-> 5, den |-> 2]
    /\ yielded[2].metadata.tokenSpeed = [num |-> 5, den |-> 1]
    /\ yielded[3].metadata.tokenSpeed = [num |-> 15, den |-> 4]

\* C16: with an empty registry a stream request fails before streamText is
\* called and before a chunk is yielded, with the code API_KEY_MISSING, whether
\* the request names a provider or not; a request for an id that a non-empty
\* registry does not hold fails with the code AI_PROVIDER_ERROR.
C16_NoProvidersFailsFast ==
    /\ (providers = <<>> /\ st.pc # "idle") =>
          /\ st.pc = "failed"
          /\ yielded = <<>>
          /\ gen.streamTextCalls = 0
          /\ st.error.code = "API_KEY_MISSING"
          /\ st.error.message \in
                {"No providers available",
                 "No AI providers configured. Please set up API keys."}
    /\ (Len(providers) > 0 /\ st.pc # "idle" /\ ~MapHas(providers, st.provider)) =>
          /\ st.pc = "failed"
          /\ yielded = <<>>
          /\ gen.streamTextCalls = 0
          /\ st.error.code = "AI_PROVIDER_ERROR"
          /\ st.error.message = "Provider " \o st.provider \o " not found"

\* C16 witness: a request that names 'openai' has failed on an empty registry.
C16_Witness ==
    /\ providers = <<>>
    /\ st.pc = "failed"
    /\ st.provider = "openai"
    /\ st.error.code = "API_KEY_MISSING"

(***************************************************************************)
(* The extraction of the document and the reasoning (SpecUI)               *)
(***************************************************************************)

\* the buffer without its closed <thinking> and <reasoning> regions, trimmed
Stripped(buffer) ==
    Trim(RemoveAll(RemoveAll(buffer, "<thinking>", "</thinking>"),
                   "<reasoning>", "</reasoning>"))

\* the lines of a text of which the trimmed text starts an HTML document
DocumentStarts(lines) ==
    {i \in 1..Len(lines) :
        StartsWith(Trim(lines[i]), "<!DOCTYPE") \/ StartsWith(Trim(lines[i]), "<html")}

\* the text has two fence marks, one after the other
HasClosedFence(text) ==
    LET Second(f) == f > 0 /\ IndexOf(text, "~~~", f + 3) > 0
    IN  Second(IndexOf(text, "~~~", 1))

\* the text from line number first on, with the closing tags the claim names
ClosedFrom(lines, first) ==
    LET Tagged(text) ==
            text \o (IF Includes(text, "<body") /\ ~Includes(text, "</body>")
                     THEN "\n</body>" ELSE "")
                 \o "\n</html>"
    IN  Tagged(Join(SubSeq(lines, first, Len(lines))))

\* the reasoning holds the trimmed text of the closed <thinking> region, if
\* the buffer has one
ReasoningHoldsThinking ==
    LET Within(thinkingMatch) ==
            thinkingMatch.found => Includes(ui.thoughtContent, Trim(thinkingMatch.inner))
    IN  Within(Match(ui.streamContent, "<thinking>", "</thinking>"))

\* C18: whenever the buffer contains a closed <code>...</code> region, the
\* extracted document is the trimmed inner text of the first such region,
\* whatever else the buffer contains
C18_CodeRegionWins ==
    LET low == Lower(ui.streamContent)
        a == IndexOf(low, "<code>", 1)
        b == IF a = 0 THEN 0 ELSE IndexOf(low, "</code>", a + Len("<code>"))
    IN  b > 0 => ui.codeContent = Trim(SubSeq(ui.streamContent, a + Len("<code>"), b - 1))

\* a delta has closed a <code> region in a buffer from which the scan of the
\* whole text gives another, non-empty document
C18_Witness ==
    /\ ui.last = "delta"
    /\ Match(ui.streamContent, "<code>", "</code>").found
    /\ ui.codeContent = "<p>A</p>"
    /\ extractHTMLFromContent(ui.streamContent) \notin {"", ui.codeContent}

\* C19 as stated: after a delta, with no closed <code> region, a line that
\* starts an HTML document and no closing </html> in the stripped buffer, the
\* document is the text from that line on, then '\n</body>' iff '<body' occurs
\* without '</body>', then '\n</html>'; and the reasoning holds the thinking
\* text
C19_LineScan ==
    LET lines == Split(Stripped(ui.streamContent))
        starts == DocumentStarts(lines)
    IN  (/\ ui.last = "delta"
         /\ ~Match(ui.streamContent, "<code>", "</code>").found
         /\ starts # {}
         /\ ~Includes(Stripped(ui.streamContent), "</html>"))
        => /\ ui.codeContent = ClosedFrom(lines, Least(starts))
           /\ ReasoningHoldsThinking

\* C19, amended: the same, for a stripped buffer that has no closed fenced
\* block and no </html> in any letter case, and where no line before the
\* first line that starts with '<!DOCTYPE' or '<html' starts with '<' and
\* contains 'html' and '>'
C19_LineScanUnfenced ==
    LET Scanned(stripped, lines, starts) ==
            (/\ starts # {}
             /\ ~Includes(Lower(stripped), "</html>")
             /\ ~HasClosedFence(stripped)
             /\ \A i \in 1..(Least(starts) - 1) :
                    ~(/\ StartsWith(Trim(lines[i]), "<")
                      /\ Includes(Trim(lines[i]), "html")
                      /\ Includes(Trim(lines[i]), ">")))
            => /\ ui.codeContent = ClosedFrom(lines, Least(starts))
               /\ ReasoningHoldsThinking
        Lines(stripped, lines) == Scanned(stripped, lines, DocumentStarts(lines))
        Text(stripped) == Lines(stripped, Split(stripped))
    IN  (ui.last = "delta" /\ ~Match(ui.streamContent, "<code>", "</code>").found)
        => Text(Stripped(ui.streamContent))

\* the buffer is a closed <thinking> region and an unterminated document, and
\* both closing tags were added
C19_Witness ==
    /\ ui.last = "delta"
    /\ ui.streamContent = "<thinking> X </thinking><html><body><p>hi"
    /\ ui.codeContent = "<html><body><p>hi\n</body>\n</html>"
    /\ ui.thoughtContent = "(thinking) **Thinking**\nX\n\n"

\* C20: after a delta was processed, the reasoning and the document are what
\* the extraction gives from the buffer alone, starting from cleared fields,
\* and extracting again from the unchanged buffer changes neither
C20_ExtractionPure ==
    LET Same(fromBuffer, again) ==
            /\ ui.thoughtContent = fromBuffer.thoughtContent
            /\ ui.codeContent = fromBuffer.codeContent
            /\ again.thoughtContent = ui.thoughtContent
            /\ again.codeContent = ui.codeContent
    IN  ui.last = "delta"
        => Same(parseAndUpdateContent([IdleUI EXCEPT !.streamContent = ui.streamContent]),
                parseAndUpdateContent(ui))

\* the second delta of a second generation was processed, and the buffer gave
\* both a reasoning and a document
C20_Witness ==
    /\ ui.last = "delta"
    /\ Len(ui.requests) = 2
    /\ ui.requests[1] \in {"settled", "failed"}
    /\ ui.handled = 2
    /\ ui.thoughtContent # ""
    /\ ui.codeContent # ""
(***************************************************************************)
(* The display of the page while it streams (SpecDisplay)                  *)
(***************************************************************************)
\* the document is judged complete
Complete100(document) == Len(document) > 100 /\ Includes(document, "</html>")

\* C21: while a stream is in progress, a chunk with content replaces what the
\* frame shows only if the extracted document is, after the chunk, longer
\* than 100 characters and contains </html>; every other chunk with content
\* leaves the frame as it was
C21_DisplayWhenComplete ==
    [][(ui'.handled = ui.handled + 1 /\ ui'.last = "delta")
            => \/ Complete100(ui'.codeContent)
               \/ ui'.displayed = ui.displayed /\ ui'.errorShown = ui.errorShown]_vars

\* a chunk has just put a complete document into the frame of a page that is
\* still streaming
C21_Witness ==
    /\ ui.last = "delta"
    /\ ui.isStreaming
    /\ Complete100(ui.codeContent)
    /\ ui.displayed = sanitizeContent(ui.codeContent)

\* C22: once a second navigation has started, a chunk of the first request
\* is neither appended to the buffer nor displayed
C22_StaleDiscarded ==
    [][\A r \in 1..MaxNavs, chunk \in DisplayChunks :
            (r < Len(ui.requests) /\ chunk.content # "" /\ HandleStreamChunk(r, chunk))
                => /\ ui'.streamContent = ui.streamContent
                   /\ ui'.displayed = ui.displayed]_vars

\* C28: what sanitizeContent returns holds no <script> tag, names data-src
\* every src attribute whose value is no data: address, and gives every
\* anchor tag target="_blank"
C28_Sanitized ==
    LET Shown(out, low) ==
            /\ ~Includes(low, "<script>")
            /\ \A i \in 1..Len(low) :
                    (Sub(low, i, 4) = "src=" /\ Sub(low, i + 4, 5) # "data:"
                        /\ Sub(low, i + 5, 5) # "data:")
                        => (i > 5 /\ Sub(low, i - 5, 5) = "data-")
            /\ \A i \in 1..Len(low) :
                    (Sub(low, i, 2) = "<a" /\ Sub(low, i + 2, 1) \notin WordChars)
                        => Sub(out, i, 18) = "<a target=\"_blank\""
    IN  ui.displayed # "" => Shown(ui.displayed, Lower(ui.displayed))

(***************************************************************************)
(* Navigation and its history (SpecNav)                                    *)
(***************************************************************************)
\* a step in which navigateToUrl went on to its stream request
Navigates == Len(ui'.requests) = Len(ui.requests) + 1

\* the history before its last entry
Earlier(h) == SubSeq(h, 1, Len(h) - 1)

\* C23: the history never holds more than 100 entries, and a navigation that
\* adds an entry after the last of 100 entries drops the first one
C23_HistoryBounded ==
    /\ [](Len(ui.navigationHistory) <= 100)
    /\ [][(/\ Navigates
           /\ Len(ui.navigationHistory) = 100
           /\ ui.currentHistoryIndex = 99
           /\ ui'.last # "back")
            => /\ Len(ui'.navigationHistory) = 100
               /\ Earlier(ui'.navigationHistory) = Tail(ui.navigationHistory)]_vars

\* a navigation has dropped the entry of site1 from a full history
C23_Witness ==
    /\ Len(ui.navigationHistory) = 100
    /\ ui.navigationHistory[1].url = PrefillUrl(2)
    /\ ui.navigationHistory[100].url = "https://a.com"

\* C24: navigateToUrl with an address that is not blank appends one entry to
\* the end of the history, after entries that were there before and in their
\* order; the entry's url is the address itself if that starts with http://
\* or https:// and the address after https:// otherwise, normalizing it
\* again changes nothing, and the stream request is made with it
C24_NormalizedEntry ==
    [][/\ \A url \in NavUrls :
            (Trim(url) # "" /\ NavigateToUrl(url))
                => ui'.navigationHistory[Len(ui'.navigationHistory)].url =
                        IF Sub(url, 1, 7) = "http://" \/ Sub(url, 1, 8) = "https://"
                        THEN url ELSE "https://" \o url
       /\ Navigates
            => LET h == ui'.navigationHistory
                   entry == h[Len(h)]
               IN  /\ ui'.asked[Len(ui'.asked)] = entry.url
                   /\ ui'.currentUrl = entry.url
                   /\ ui'.currentHistoryIndex = Len(h) - 1
                   /\ normalizeUrl(entry.url) = entry.url
                   /\ \E from \in 1..2 :
                        /\ Len(ui.navigationHistory) >= from + Len(h) - 2
                        /\ Earlier(h) = SubSeq(ui.navigationHistory, from, from + Len(h) - 2)
      ]_vars

\* a.com was typed after two visits and the request for https://a.com is out
C24_Witness ==
    /\ ui.last = "start"
    /\ Len(ui.navigationHistory) = 3
    /\ ui.navigationHistory[3].url = "https://a.com"
    /\ ui.navigationHistory[2].url = PrefillUrl(2)
    /\ ui.asked = <<"https://a.com">>

\* C25: navigateToUrl with an empty or blank address changes nothing and
\* makes no stream request
C25_BlankIgnored ==
    [][\A url \in NavUrls :
            (Trim(url) = "" /\ NavigateToUrl(url))
                => [ui' EXCEPT !.last = ui.last] = ui]_vars

\* a blank address was typed while a navigation was loading
C25_Witness ==
    /\ ui.last = "ignored"
    /\ ui.isLoading
    /\ Len(ui.requests) = 1

\* a navigation has not settled
Pending == \E r \in 1..Len(ui.requests) : ui.requests[r] \in {"streaming", "done"}

\* C26: isLoading is true while a navigation has not settled and false once
\* all have; after a failed stream request error holds the message of the
\* failure and isLoading is false
C26_LoadingUntilSettled ==
    /\ Pending => ui.isLoading
    /\ (~Pending /\ ui.requests # <<>>) => ~ui.isLoading
    /\ ui.last = "failed" => (ui.error = StreamFailure /\ ~ui.isLoading)

\* C27: goBack makes the entry before the current one the current page and
\* changes no entry, and a goForward that follows it moves forward again and
\* changes no entry
C27_BackAndForth ==
    [][/\ (GoBack /\ ui.currentHistoryIndex > 0)
            => /\ ui'.navigationHistory = ui.navigationHistory
               /\ ui'.currentHistoryIndex = ui.currentHistoryIndex - 1
               /\ ui'.currentUrl = ui.navigationHistory[ui.currentHistoryIndex].url
       /\ (GoForward /\ ui.last = "back")
            => /\ ui'.navigationHistory = ui.navigationHistory
               /\ ui'.last = "forward"
               /\ ui'.currentHistoryIndex = ui.currentHistoryIndex + 1
      ]_vars

(***************************************************************************)
(* The order of the steps of generateWebsite (SpecLLM)                     *)
(***************************************************************************)
\* a step of generateWebsite: the call of the backend, the failure of the
\* validation, and the write to the cache
C29Step ==
    /\ \A i \in 1..MaxReqs :
        /\ (slots[i].pc = "idle" /\ slots'[i].pc = "invoking")
            => /\ ~MapHas(cache, slots'[i].cacheKey)
               /\ MapHas(providers, slots'[i].provider)
               /\ MapGet(providers, slots'[i].provider).apiKey # ""
               /\ slots'[i].backendCalls = 1
               /\ cache' = cache
        /\ \A r \in LLMRequests :
              (/\ EndsAtOnce(i)
               /\ r.provider # Undefined
               /\ ret'.cacheKey = generateCacheKey(r.url, r.provider, r.options)
               /\ ~MapHas(cache, ret'.cacheKey)
               /\ ~MapHas(providers, r.provider))
                => /\ ret'.status = "failed"
                   /\ ret'.error = AIError("Provider " \o r.provider \o " not found",
                                           "AI_PROVIDER_ERROR", r.provider)
                   /\ ret'.backendCalls = 0
                   /\ slots' = slots
                   /\ cache' = cache
    /\ (cache' # cache /\ cache' # <<>>)
        => \E i \in 1..MaxReqs :
                /\ Settles(i)
                /\ ret'.status = "returned"
                /\ slots[i].backendCalls = 1
                /\ MapGet(cache', slots[i].cacheKey) = ret'.response

\* C29: generateWebsite calls the backend only for a key the cache does not
\* hold and a provider that is registered with an API key; on a miss for a
\* provider that is not registered it fails with the "not found" error of
\* validateProvider, calling no backend and leaving the cache alone; and the
\* cache is written only when a backend call succeeds, with its response
C29_CheckValidateInvokeStore == [][C29Step]_vars

\* a call for a provider that is not registered has failed on a miss, with
\* a cache that holds entries
C29_Witness ==
    /\ ret.status = "failed"
    /\ ret.backendCalls = 0
    /\ ret.error = AIError("Provider mistral not found", "AI_PROVIDER_ERROR", "mistral")
    /\ cache # <<>>
    /\ ~MapHas(cache, ret.cacheKey)

(***************************************************************************)
(* Parts of other types (SpecStream)                                       *)
(***************************************************************************)
\* C30: a part of fullStream whose type is none of text-delta, finish and
\* error yields no chunk and changes neither the token counts nor the
\* measurements of speed, and fullStream is read on
C30_OtherPartIgnored ==
    [][\A dt \in TimeSteps :
            FullStreamPart(OtherPart, dt)
                => /\ yielded' = yielded
                   /\ st'.totalTokens = st.totalTokens
                   /\ st'.inputTokens = st.inputTokens
                   /\ st'.outputTokens = st.outputTokens
                   /\ st'.lastOutputTokens = st.lastOutputTokens
                   /\ st'.lastChunkTime = st.lastChunkTime
                   /\ st'.totalSpeedMeasurements = st.totalSpeedMeasurements
                   /\ st'.cumulativeSpeed = st.cumulativeSpeed
                   /\ st'.hasReceivedContent = st.hasReceivedContent
                   /\ st'.pc = "full"
                   /\ st'.error = st.error]_vars

\* three parts were read and fullStream is read on: two text deltas, each
\* yielded as a chunk, and a part of another type
C30_Witness ==
    /\ st.pc = "full"
    /\ gen.fullRead = 3
    /\ Len(gen.consumed) = 2
    /\ Len(yielded) = 2
    /\ st.chunkCount = 3
    /\ st.totalSpeedMeasurements >= 1

(***************************************************************************)
(* The options of the request (SpecOptions)                                *)
(***************************************************************************)
\* C31: generateWebsite calls the backend with the temperature of the
\* request's options whenever they give one, 0 included, and with 0.7 when
\* they give none
C31_TemperatureAsGiven ==
    \A i \in 1..MaxReqs :
        slots[i].pc = "invoking"
            => slots[i].args.temperature =
                    IF OptionValue(slots[i].options, "temperature") # UndefinedNum
                    THEN OptionValue(slots[i].options, "temperature")
                    ELSE 7

(***************************************************************************)
(* Claims about the end of a streamed run                                  *)
(***************************************************************************)
\* C32: the iteration of fullStream that reads a finish part ends the run:
\* the only chunk it yields is the final chunk (empty, done), and once the
\* run has ended nothing more is read from the provider and nothing more is
\* yielded.
C32_FinishEndsRun ==
    [][/\ (/\ gen'.fullRead = gen.fullRead + 1
           /\ \E p \in Parts, dt \in TimeSteps :
                 p.type = "finish" /\ FullStreamPart(p, dt))
            => /\ st'.pc = "ended"
               /\ Len(yielded') = Len(yielded) + 1
               /\ SubSeq(yielded', 1, Len(yielded)) = yielded
               /\ yielded'[Len(yielded')].done
               /\ yielded'[Len(yielded')].content = ""
       /\ st.pc = "ended" => (gen' = gen /\ yielded' = yielded /\ st' = st)]_vars

\* C32 witness: a finish part with usage totals was read after two content
\* chunks, and the run has ended with the final chunk as its third.
C32_Witness ==
    /\ st.pc = "ended"
    /\ gen.usage.present
    /\ gen.fullFailure = ""
    /\ gen.fullRead = 3
    /\ Len(yielded) = 3
    /\ yielded[3].done

\* the concatenation of the strings q
RECURSIVE Text(_)
Text(q) == IF q = <<>> THEN "" ELSE Head(q) \o Text(Tail(q))

\* C33: when a run has ended with the final chunk, the contents of the
\* chunks it yielded, concatenated, are the text the generation produced:
\* its fragments in order, each once.
C33_ContentIsGeneratedText ==
    st.pc = "ended"
        => Text([i \in 1..Len(yielded) |-> yielded[i].content]) = Text(gen.fragments)

\* C34: in every chunk of a run that read no usage totals, tokensUsed is
\* inputTokens + outputTokens, the final chunk of a run without content
\* included.
C34_TotalIsSum ==
    ~gen.usage.present
        => \A i \in 1..Len(yielded) :
              yielded[i].metadata.tokensUsed =
                  yielded[i].metadata.inputTokens + yielded[i].metadata.outputTokens
\* C35: a run that is pulled to its end, from finite provider streams,
\* eventually yields the final chunk or fails with an error; never both; and
\* after either no further chunk is yielded.
C35_Terminates ==
    /\ (st.pc # "idle") ~> (DoneChunks # {} \/ (st.pc = "failed" /\ st.error # NoError))
    /\ [](~(DoneChunks # {} /\ (st.pc = "failed" \/ st.error # NoError)))
    /\ [][(DoneChunks # {} \/ st.pc = "failed") => (yielded' = yielded /\ st' = st)]_vars

\* C35 witness: a run fell back to textStream after a content chunk, yielded
\* more content and failed, without a final chunk.
C35_Witness ==
    /\ st.pc = "failed"
    /\ st.error.code = "CONTENT_GENERATION_FAILED"
    /\ gen.textRead > 0
    /\ Len(yielded) >= 2
    /\ DoneChunks = {}
(***************************************************************************)
(* Claims about the cache, continued                                       *)
(***************************************************************************)
C36Step ==
    (tick' # tick /\ LastCall.op = "set" /\ MapHas(cache, LastCall.key))
        => /\ Held(cache') = Held(cache)
           /\ Len(cache') = Len(cache)
           /\ LastCall.removed = {}

\* C36: a set with a key the cache holds replaces the value of that key and
\* nothing else: no entry is evicted and the held keys stay the same, also
\* when the cache is at capacity.
C36_HeldKeyOnlyReplaces == [][C36Step]_vars

\* C37: two requests that differ in url, provider or options never get the
\* same cache key.
C37_KeysInjective ==
    (keyOut # <<>> /\ keyOut[1] = keyOut[2]) => keyIn[1] = keyIn[2]
\* the entries the Map holds for key k
EntriesFor(m, k) == {n \in 1..Len(m) : m[n].key = k}

C38Step ==
    \A i \in 1..MaxReqs :
        /\ \A j \in 1..MaxReqs \ {i} :
              (/\ slots[j].pc = "invoking"
               /\ ~MapHas(cache, slots[j].cacheKey)
               /\ EndsAtOnce(i))
                => ret'.cacheKey # slots[j].cacheKey
        /\ (Settles(i) /\ ret'.status = "returned")
            => /\ Cardinality(EntriesFor(cache', slots[i].cacheKey)) = 1
               /\ MapGet(cache', slots[i].cacheKey) = ret'.response

\* C38: a generateWebsite call for a key that another call is still
\* generating, and that the cache does not hold, is not served without the
\* backend: it invokes it too.  Whenever a call completes with a response the
\* cache holds exactly one entry for its key, with that response, so after
\* two calls for one key it holds the response of the one that completed
\* last.  The cache never holds more than MAX_CACHE_SIZE entries.
C38_ConcurrentSameKey ==
    /\ [](Len(cache) <= MAX_CACHE_SIZE)
    /\ [][C38Step]_vars

\* C38 witness: two calls for one key were suspended at the same time; the
\* first has completed and its response is held while the second is still
\* waiting for the backend, with the cache at capacity.
C38_Witness ==
    /\ slots[1].pc = "idle"
    /\ slots[2].pc = "invoking"
    /\ slots[2].backendCalls = 1
    /\ ret.slot = 1
    /\ ret.status = "returned"
    /\ ret.backendCalls = 1
    /\ ret.cacheKey = slots[2].cacheKey
    /\ MapGet(cache, ret.cacheKey) = ret.response
    /\ Len(cache) = MAX_CACHE_SIZE
(***************************************************************************)
(* Claims about the navigation history, continued                          *)
(***************************************************************************)
\* C39: after any sequence of navigateToUrl, goBack, goForward and refresh
\* the current index is -1 exactly when the history is empty; otherwise it
\* is the index of an entry, and that entry has the current url.
C39_IndexOnCurrentEntry ==
    /\ ui.currentHistoryIndex = -1 <=> Len(ui.navigationHistory) = 0
    /\ Len(ui.navigationHistory) > 0
        => /\ 0 <= ui.currentHistoryIndex
           /\ ui.currentHistoryIndex < Len(ui.navigationHistory)
           /\ ui.navigationHistory[ui.currentHistoryIndex + 1].url = ui.currentUrl

\* C39 witness: goBack from the last entry of a full history has cut that
\* entry off and pushed the url of the entry before it, which is the current
\* entry and the current url.
C39_Witness ==
    /\ ui.last = "back"
    /\ Len(ui.navigationHistory) = MaxHistoryEntries
    /\ ui.currentHistoryIndex = MaxHistoryEntries - 1
    /\ ui.navigationHistory[MaxHistoryEntries].url = PrefillUrl(MaxHistoryEntries - 1)
    /\ ui.navigationHistory[MaxHistoryEntries - 1].url = PrefillUrl(MaxHistoryEntries - 1)
    /\ ui.currentUrl = PrefillUrl(MaxHistoryEntries - 1)
\* C40: canGoBack is true exactly when the history has an entry before the
\* current one, canGoForward exactly when it has one after it, and the back
\* and forward buttons are enabled accordingly.
C40_ButtonsFollowHistory ==
    /\ ui.canGoBack <=> ui.currentHistoryIndex > 0
    /\ ui.canGoForward <=> ui.currentHistoryIndex < Len(ui.navigationHistory) - 1
    /\ ui.backDisabled <=> ~(ui.currentHistoryIndex > 0)
    /\ ui.forwardDisabled <=> ~(ui.currentHistoryIndex < Len(ui.navigationHistory) - 1)
====
